---- MODULE Spec2Model ----
(***************************************************************************)
(* A model of the scope-hoisting grouper                                   *)
(* (plugin_runtime/src/render_resource_pot/scope_hoisting.rs) and of the   *)
(* incremental resource regeneration                                       *)
(* (compiler/src/update/regenerate_resources.rs), with the update payload *)
(* it renders, and of the bundle analyzer's strip_module,                  *)
(* link_module_relation, patch_ast and codegen                             *)
(* (plugin_bundle/.../bundle/bundle_analyzer.rs), of the hooks of          *)
(* FarmPluginRuntime (plugin_runtime/src/lib.rs), of                       *)
(* resource_pot_to_runtime_object (plugin_runtime/src/render_resource_pot) *)
(* and of the locks these functions take, of the farm bundler.             *)
(***************************************************************************)
EXTENDS Integers, Sequences, FiniteSets

(***************************************************************************)
(* Bounds.                                                                 *)
(***************************************************************************)
\* the largest number of import edges of a module graph
MaxEdges == 2
\* the number of resource pot ids the partial-bundling hook may use per module group
MaxPotsPerGroup == 2
\* the largest number of statements of the modules of a bundle, taken together
MaxStatements == 2
\* the largest number of statements of a module handed to link_module_relation
MaxLinkStatements == 1
\* the largest number of modules of a bundle handed to patch_ast
MaxPatchModules == 2
\* the largest number of modules of a resource pot handed to build_module_order,
\* the polyfill slot module not counted
MaxPotModules == 3
\* the largest length of diff_result.added_modules and of updated_module_ids
\* handed to render_and_generate_update_resource
MaxUpdateIds == 2

(***************************************************************************)
(* Generic helpers for the Rust collections the code uses.                 *)
(***************************************************************************)
\* HashMap::insert
MapInsert(f, k, v) == [x \in (DOMAIN f) \cup {k} |-> IF x = k THEN v ELSE f[x]]

\* HashMap::remove (the map part of it)
MapRemove(f, k) == [x \in (DOMAIN f) \ {k} |-> f[x]]

\* the empty HashMap / HashMap::new()
EmptyMap == [x \in {} |-> {}]

\* the orders in which a hash collection with the elements S can be iterated
RECURSIVE IterationOrders(_)
IterationOrders(S) ==
  IF S = {} THEN {<<>>}
  ELSE UNION {{<<x>> \o s : s \in IterationOrders(S \ {x})} : x \in S}

\* the subsets of S with at most k elements
RECURSIVE SubsetsUpTo(_, _)
SubsetsUpTo(S, k) ==
  IF k = 0 THEN {{}}
  ELSE LET smaller == SubsetsUpTo(S, k - 1)
       IN smaller \cup {T \cup {x} : T \in smaller, x \in S}

\* the elements of a sequence
Range(s) == {s[i] : i \in 1..Len(s)}

(***************************************************************************)
(* Module ids.  A ModuleId is represented by the bytes of its to_string(): *)
(* "a", "ab", "b" and "c".                                                 *)
(***************************************************************************)
ModuleIds == {<<97>>, <<97, 98>>, <<98>>, <<99>>}

\* ModuleId::to_string
IdToString(id) == id

\* Ord for String: lexicographic on the bytes, a proper prefix is smaller
RECURSIVE StrLess(_, _)
StrLess(s, t) ==
  IF t = <<>> THEN FALSE
  ELSE IF s = <<>> THEN TRUE
  ELSE IF s[1] # t[1] THEN s[1] < t[1]
  ELSE StrLess(Tail(s), Tail(t))

VARIABLES
  \* ---- scope hoisting: the inputs of build_scope_hoisted_module_groups
  potModules,          \* resource_pot.modules()
  dependents,          \* module_graph.dependents_ids, per module of the graph
  executionOrder,      \* module.execution_order, per module of the graph
  dynamicEdges,        \* the <<importer, imported>> edges that are dynamic imports
  concatenate_modules, \* context.config.concatenate_modules
  \* ---- scope hoisting: the locals of build_scope_hoisted_module_groups
  hpc,                 \* the position in the function
  scope_hoisted_module_groups_map,        \* root -> hoisted_module_ids
  reverse_module_hoisted_group_map,       \* module -> root of its group
  merged_scope_hoisted_module_groups_map, \* root -> the roots merged into it
  res,                 \* the returned Vec<ScopeHoistedModuleGroup>
  \* ---- regeneration: the compilation context
  module_resource_pot,   \* module.resource_pot, per module of the module graph
  module_group_resource_pots, \* module_group.resource_pots(), per module group
  resource_pot_map,      \* context.resource_pot_map: pot id -> resource pot
  resources_map,         \* context.resources_map: the names of the resources
  sourcemap,             \* context.config.sourcemap
  \* ---- regeneration: regenerate_resources_for_affected_module_groups
  affected_module_groups,     \* the argument
  updated_module_ids,         \* the argument
  rpc,                        \* the position in the function
  groups_left,                \* the affected groups the first loop has not reached
  updated_next,               \* the index of the next updated module of the second loop
  affected_resource_pots_ids, \* the local Vec<ResourcePotId>
  rendered,              \* the pots handed to render_resource_pots_and_generate_resources
  \* ---- regeneration: history, read by the properties only
  pre,                   \* the context as it was when the function was called
  failed_group,          \* the groups whose partial-bundling hook failed
  removed_by_diff,       \* the pots and resources removed by the first loop
  hook_results           \* per group bundled in this call, the pot ids the hook returned

hoistVars == <<potModules, dependents, executionOrder, dynamicEdges, concatenate_modules,
               hpc, scope_hoisted_module_groups_map, reverse_module_hoisted_group_map,
               merged_scope_hoisted_module_groups_map, res>>

regenVars == <<module_resource_pot, module_group_resource_pots, resource_pot_map,
               resources_map, sourcemap, affected_module_groups, updated_module_ids, rpc,
               groups_left, updated_next, affected_resource_pots_ids, rendered,
               pre, failed_group, removed_by_diff, hook_results>>

VARIABLES
  \* ---- update payload: the arguments of render_and_generate_update_resource
  previous_modules,      \* the modules of the previously built module graph
  added_modules,         \* diff_result.added_modules
  payload_module_ids,    \* the argument updated_module_ids
  \* ---- update payload: the locals of render_and_generate_update_resource
  upc,                   \* the position in the function
  update_resource_pot,   \* update_resource_pot.modules(), in the order they were added
  object_lit,            \* the keys of the runtime object literal, in order
  payload                \* the returned String: the module ids the payload has a factory for

updVars == <<previous_modules, added_modules, payload_module_ids, upc,
             update_resource_pot, object_lit, payload>>

VARIABLES
  \* ---- bundle analyzer: BundleAnalyzer and the managers its methods get
  ordered_modules,       \* self.ordered_modules
  module_analyzers,      \* module_analyzer_manager: module id -> ModuleAnalyzer
  statement_actions,     \* module_analyzer.statement_actions, per module
  bapc,                  \* the method that runs and its position
  ba_index,              \* the index of the loop over ordered_modules
  link_module_id,        \* link_module_relation: the argument module_id
  importers,             \* module_graph.dependents_ids(module_id)
  namespace_modules,     \* module_analyzer_manager.namespace_modules
  bundle_references,     \* bundle_reference_manager: module id -> what was recorded
  variable_ops,          \* the renames made in self.bundle_variable
  is_contain_export,     \* link_module_relation: the local
  is_reference_by_another, \* link_module_relation: the local
  is_format_to_commonjs, \* link_module_relation: the local (config.output.format)
  find_results, \* link_module_relation: per statement handled, what
                \* find_ident_by_index returned for each of its specifiers
  module_ast,            \* patch_ast: module_analyzer.ast.body, per module
  redeclare_commonjs_import, \* bundle_reference.redeclare_commonjs_import, per module
  reference_export,      \* per module: bundle_reference.export is Some
  reference_import,      \* per module: bundle_reference.import_map is not empty
  is_runtime_bundle,     \* patch_ast: the local
  reference_first_index, \* patch_ast: the local HashMap
  commonjs_module_index, \* patch_ast: the local HashMap
  total_bundle_reference, \* patch_ast: the local BundleReference
  export_raw,            \* patch_ast: the local BundleReference
  patch_import_to_module, \* patch_ast: the local Vec
  patch_export_to_module, \* patch_ast: the local Vec
  polyfill,              \* SimplePolyfill: the helpers collected, in the order of to_str()
  polyfill_index_map,    \* bundle_variable.polyfill_index_map: the names that have an index
  resource_pot_modules,  \* self.resource_pot.modules()
  order_index_map,       \* build_module_order: the argument
  target_env,            \* config.output.target_env
  bundle,                \* codegen: the Bundle, as the pieces of its text in order
  \* ---- bundle analyzer: history, read by the properties only
  earlier_actions        \* statement_actions as they were when the method was called

stripVars == <<statement_actions, earlier_actions>>

linkVars == <<link_module_id, importers, namespace_modules, bundle_references,
              variable_ops, is_contain_export, is_reference_by_another,
              is_format_to_commonjs, find_results>>

patchVars == <<module_ast, redeclare_commonjs_import, reference_export, reference_import,
               is_runtime_bundle, reference_first_index, commonjs_module_index,
               total_bundle_reference, export_raw, patch_import_to_module,
               patch_export_to_module>>

codegenVars == <<polyfill, polyfill_index_map, resource_pot_modules, order_index_map,
                 target_env, bundle>>

baVars == <<ordered_modules, module_analyzers, bapc, ba_index, stripVars, linkVars,
            patchVars, codegenVars>>

VARIABLES
  \* ---- resource_pot_to_runtime_object
  ro_pot_modules,        \* resource_pot.modules(), in the order of the iteration
  ro_graph,              \* the modules that module_graph holds
  ro_failing,            \* the modules for which render_module returns Err
  ro_external,           \* render_module_result.external_modules, per module
  ro_tasks,              \* the tasks of the parallel iterator that have not run
  ro_modules,            \* the local modules (Mutex<Vec>): the results pushed so far
  ro_pc,                 \* the position in the function
  ro_result              \* what the function hands on: the modules and the externals

VARIABLES
  \* ---- FarmPluginRuntime: process_resource_pot_map, render_resource_pot,
  \* ---- generate_resources
  resource_pot_type,     \* resource_pot.resource_pot_type
  entry_module,          \* resource_pot.entry_module
  resource_pot_ast,      \* resource_pot.meta.as_js().ast.body, the kinds of its statements
  runtime_ast,           \* self.runtime_ast: None, or Some(body of the runtime)
  gr_returned,           \* what the last hook that ran returned
  gr_before,             \* resource_pot_ast as it was when generate_resources was called
  gr_since_render,       \* the calls of generate_resources that changed the AST since the last render_resource_pot
  gr_injections,         \* the calls of generate_resources that injected and returned Ok
  gr_calls               \* the hooks that have run

grVars == <<resource_pot_type, entry_module, resource_pot_ast, runtime_ast, gr_returned,
            gr_before, gr_since_render, gr_injections, gr_calls>>

VARIABLES
  \* ---- FarmPluginRuntime: resolve, load, finalize_module
  rs_source,             \* param.source of the resolve hook
  rs_importer,           \* param.importer, its relative_path: None or Some(path)
  rs_driver,             \* what the other plugins answer to the delegated resolve
  rs_stack,              \* the calls of FarmPluginRuntime::resolve that have not returned
  rs_pc,                 \* the position: in resolve, in the plugin driver, in load ...
  rs_result,             \* what the outermost resolve returned
  ld_read,               \* load: the path handed to read_file_utf8, None or Some(path)
  ld_returned,           \* load: what it returned
  fm_id,                 \* finalize_module: param.module.id.to_string()
  fm_module_type         \* finalize_module: param.module.module_type

rsVars == <<rs_source, rs_importer, rs_driver, rs_stack, rs_pc, rs_result, ld_read,
            ld_returned, fm_id, fm_module_type>>

VARIABLES
  \* ---- the locks of the CompilationContext and the threads that take them
  lk_program,            \* per thread: the function it runs
  lk_pc,                 \* per thread: the position in that function
  lk_groups,             \* per thread: the affected module groups still to go through
  lk_module_graph,       \* context.module_graph: the writer and the readers
  lk_module_group_graph, \* context.module_group_graph: the writer and the readers
  lk_resource_pot_map,   \* context.resource_pot_map: the writer and the readers
  lk_resources_map       \* context.resources_map: the thread that holds the Mutex

lkVars == <<lk_program, lk_pc, lk_groups, lk_module_graph, lk_module_group_graph,
            lk_resource_pot_map, lk_resources_map>>

roVars == <<ro_pot_modules, ro_graph, ro_failing, ro_external, ro_tasks, ro_modules, ro_pc,
            ro_result>>

rtVars == <<roVars, grVars, rsVars, lkVars>>

vars == <<hoistVars, regenVars, updVars, baVars, rtVars>>

outsideHoist == <<regenVars, updVars, baVars, rtVars>>

outsideRegen == <<hoistVars, updVars, baVars, rtVars>>

outsideUpd == <<hoistVars, regenVars, baVars, rtVars>>

outsideBa == <<hoistVars, regenVars, updVars, rtVars>>

outsideRt == <<hoistVars, regenVars, updVars, baVars>>

outsideRo == <<outsideRt, grVars, rsVars, lkVars>>

outsideGr == <<outsideRt, roVars, rsVars, lkVars>>

outsideRs == <<outsideRt, roVars, grVars, lkVars>>

outsideLk == <<outsideRt, roVars, grVars, rsVars>>

\* resource_pot_to_runtime_object is not running
RoIdle ==
  /\ ro_pot_modules = <<>>
  /\ ro_graph = {}
  /\ ro_failing = {}
  /\ ro_external = <<>>
  /\ ro_tasks = {}
  /\ ro_modules = <<>>
  /\ ro_pc = ""
  /\ ro_result = <<>>

\* no hook of FarmPluginRuntime has a resource pot
GrIdle ==
  /\ resource_pot_type = ""
  /\ entry_module = <<>>
  /\ resource_pot_ast = <<>>
  /\ runtime_ast = <<>>
  /\ gr_returned = ""
  /\ gr_before = <<>>
  /\ gr_since_render = 0
  /\ gr_injections = 0
  /\ gr_calls = 0

\* no resolve, load or finalize_module hook of FarmPluginRuntime is running
RsIdle ==
  /\ rs_source = <<>>
  /\ rs_importer = <<>>
  /\ rs_driver = <<>>
  /\ rs_stack = <<>>
  /\ rs_pc = ""
  /\ rs_result = <<>>
  /\ ld_read = <<>>
  /\ ld_returned = ""
  /\ fm_id = <<>>
  /\ fm_module_type = ""

\* no thread is there to take a lock
LkIdle ==
  /\ lk_program = <<>>
  /\ lk_pc = <<>>
  /\ lk_groups = <<>>
  /\ lk_module_graph = <<>>
  /\ lk_module_group_graph = <<>>
  /\ lk_resource_pot_map = <<>>
  /\ lk_resources_map = 0

\* nothing of the runtime plugin is running
RtIdle ==
  /\ RoIdle
  /\ GrIdle
  /\ RsIdle
  /\ LkIdle

\* patch_ast is not running
PatchIdle ==
  /\ module_ast = <<>>
  /\ redeclare_commonjs_import = <<>>
  /\ reference_export = <<>>
  /\ reference_import = <<>>
  /\ is_runtime_bundle = FALSE
  /\ reference_first_index = <<>>
  /\ commonjs_module_index = <<>>
  /\ total_bundle_reference = <<>>
  /\ export_raw = <<>>
  /\ patch_import_to_module = <<>>
  /\ patch_export_to_module = <<>>

\* patch_polyfill, build_module_order and codegen are not running
CodegenIdle ==
  /\ polyfill = <<>>
  /\ polyfill_index_map = {}
  /\ resource_pot_modules = <<>>
  /\ order_index_map = <<>>
  /\ target_env = ""
  /\ bundle = <<>>

\* no method of BundleAnalyzer is running
BaIdle ==
  /\ PatchIdle
  /\ CodegenIdle
  /\ ordered_modules = <<>>
  /\ module_analyzers = <<>>
  /\ statement_actions = <<>>
  /\ bapc = "idle"
  /\ ba_index = 1
  /\ earlier_actions = <<>>
  /\ link_module_id = <<>>
  /\ importers = {}
  /\ namespace_modules = {}
  /\ bundle_references = <<>>
  /\ variable_ops = {}
  /\ is_contain_export = FALSE
  /\ is_reference_by_another = FALSE
  /\ is_format_to_commonjs = FALSE
  /\ find_results = <<>>

\* render_and_generate_update_resource is not running
UpdIdle ==
  /\ previous_modules = {}
  /\ added_modules = <<>>
  /\ payload_module_ids = <<>>
  /\ upc = "idle"
  /\ update_resource_pot = <<>>
  /\ object_lit = <<>>
  /\ payload = <<>>

(***************************************************************************)
(* build_scope_hoisted_module_groups                                       *)
(***************************************************************************)
\* ScopeHoistedModuleGroup::new: the group holds its own root
NewGroup(target_hoisted_module_id) == {target_hoisted_module_id}

\* resource_pot.has_module
HasModule(pot, id) == id \in pot

\* line 108: some dependent of the module is not in this resource pot
HasDependentOutsidePot(deps, pot) == \E id \in deps : ~HasModule(pot, id)

\* a plausible slip of line 118: "some group" instead of "the same group"
SomeDependentsGroup(ids) == Cardinality(ids) >= 1

\* line 118: all of the dependents are in the same group
AllDependentsInSameGroup(ids) == Cardinality(ids) = 1

\* a plausible slip of lines 124-129: the comparison the other way round
IsCycleSkipFlipped(dependentsGroupOrder, groupOrder) == dependentsGroupOrder > groupOrder

\* lines 124-129: the dependents' group executes earlier than this module: a cycle
IsCycleSkip(dependentsGroupOrder, groupOrder) == dependentsGroupOrder < groupOrder

\* lines 95-100: the groups sorted by execution order, larger first; the sort
\* is stable over the hash map's iteration order, so equal orders may come
\* in any order
TopologicalOrders(pot, order) ==
  {s \in IterationOrders(pot) :
     \A i, j \in 1..Len(s) : i < j => order[s[i]] >= order[s[j]]}

\* lines 105-145: the merge loop over the sorted groups, from position i on.
\* groups is the (unchanged) seed map; the result is the reverse map and the
\* merged map after the loop.
RECURSIVE MergeLoop(_, _, _, _, _, _, _, _)
MergeLoop(sorted, i, pot, deps, order, groups, reverse, merged) ==
  IF i > Len(sorted) THEN [reverse |-> reverse, merged |-> merged]
  ELSE
    LET target == sorted[i]
        dependentsOf == deps[target]
        skip == MergeLoop(sorted, i + 1, pot, deps, order, groups, reverse, merged)
    IN IF HasDependentOutsidePot(dependentsOf, pot) THEN skip
       ELSE
         LET dependents_hoisted_group_ids == {reverse[id] : id \in dependentsOf}
         IN IF ~AllDependentsInSameGroup(dependents_hoisted_group_ids) THEN skip
            ELSE
              LET dependents_hoisted_group_id ==
                    CHOOSE id \in dependents_hoisted_group_ids : TRUE
              IN IF IsCycleSkip(order[dependents_hoisted_group_id], order[target])
                 THEN skip
                 ELSE
                   LET old == IF dependents_hoisted_group_id \in DOMAIN merged
                              THEN merged[dependents_hoisted_group_id] ELSE {}
                   IN MergeLoop(sorted, i + 1, pot, deps, order, groups,
                        [id \in DOMAIN reverse |->
                           IF id \in groups[target] THEN dependents_hoisted_group_id
                           ELSE reverse[id]],
                        MapInsert(merged, dependents_hoisted_group_id, old \cup {target}))

\* lines 152-157: the inner loop of one merged entry: remove every hoisted
\* group from the map and collect its ids; unwrap() of a group that is no
\* longer in the map panics
RECURSIVE RemoveHoisted(_, _)
RemoveHoisted(groups, hoisted) ==
  IF hoisted = {} THEN [panicked |-> FALSE, groups |-> groups, all |-> {}]
  ELSE
    LET h == CHOOSE x \in hoisted : TRUE
    IN IF h \notin DOMAIN groups
       THEN [panicked |-> TRUE, groups |-> groups, all |-> {}]
       ELSE LET rest == RemoveHoisted(MapRemove(groups, h), hoisted \ {h})
            IN [panicked |-> rest.panicked, groups |-> rest.groups,
                all |-> groups[h] \cup rest.all]

\* lines 147-164: the loop over the merged map in the iteration order "iter",
\* from position i on; get_mut(target).unwrap() of a target that was removed
\* panics
RECURSIVE ExtendLoop(_, _, _, _)
ExtendLoop(iter, i, merged, groups) ==
  IF i > Len(iter) THEN [panicked |-> FALSE, groups |-> groups]
  ELSE
    LET target == iter[i]
        removed == RemoveHoisted(groups, merged[target])
    IN IF removed.panicked \/ target \notin DOMAIN removed.groups
       THEN [panicked |-> TRUE, groups |-> groups]
       ELSE ExtendLoop(iter, i + 1, merged,
              [removed.groups EXCEPT ![target] = @ \cup removed.all])

\* a plausible slip of line 170: the groups are left in hash order
UnsortedByRoot(s) == TRUE

\* line 170: sort_by_key(to_string): the sequence ascends by the root's string
SortedByRoot(s) ==
  \A i, j \in 1..Len(s) :
    i < j => ~StrLess(IdToString(s[j].target_hoisted_module_id),
                      IdToString(s[i].target_hoisted_module_id))

\* lines 167-172: into_values() in any iteration order, then the stable sort
CollectedResults(groups) ==
  {s \in {[i \in 1..Len(iter) |->
             [target_hoisted_module_id |-> iter[i], hoisted_module_ids |-> groups[iter[i]]]] :
          iter \in IterationOrders(DOMAIN groups)} :
     SortedByRoot(s)}

\* the import edges of a module graph, as <<importer, imported>>.  The
\* function reads the dependents of the pot's modules only, so the edges
\* into modules outside the pot are left out.
EdgeSets(pot) == SubsetsUpTo(ModuleIds \X pot, MaxEdges)

\* execution orders: the numbering of a depth-first walk of the graph, one
\* number per module.  The function reads the orders of the pot's modules
\* only; the modules outside take the remaining numbers in the order of
\* their ids.
ExecutionOrders(pot) ==
  {o \in [ModuleIds -> 1..Cardinality(ModuleIds)] :
     /\ \A m, n \in ModuleIds : m # n => o[m] # o[n]
     /\ \A m \in ModuleIds \ pot :
          o[m] = Cardinality(pot)
                 + Cardinality({n \in ModuleIds \ pot : ~StrLess(m, n)})}

\* no update is running
RegenIdle ==
  /\ module_resource_pot = EmptyMap
  /\ module_group_resource_pots = EmptyMap
  /\ resource_pot_map = EmptyMap
  /\ resources_map = {}
  /\ sourcemap = FALSE
  /\ affected_module_groups = {}
  /\ updated_module_ids = <<>>
  /\ rpc = "idle"
  /\ groups_left = {}
  /\ updated_next = 1
  /\ affected_resource_pots_ids = <<>>
  /\ rendered = <<>>
  /\ pre = EmptyMap
  /\ failed_group = {}
  /\ removed_by_diff = [pots |-> {}, resources |-> {}]
  /\ hook_results = EmptyMap

HoistInit ==
  /\ potModules \in (SUBSET ModuleIds) \ {{}}
  /\ executionOrder \in ExecutionOrders(potModules)
  /\ \E E \in EdgeSets(potModules) :
       /\ dependents = [m \in ModuleIds |-> {e[1] : e \in {x \in E : x[2] = m}}]
       /\ dynamicEdges \in SUBSET E
  /\ concatenate_modules \in BOOLEAN
  /\ hpc = "seed"
  /\ scope_hoisted_module_groups_map = EmptyMap
  /\ reverse_module_hoisted_group_map = EmptyMap
  /\ merged_scope_hoisted_module_groups_map = EmptyMap
  /\ res = <<>>

hoistInputs == <<potModules, dependents, executionOrder, dynamicEdges, concatenate_modules>>

\* lines 78-90: one group per module of the pot
SeedGroups ==
  /\ hpc = "seed"
  /\ scope_hoisted_module_groups_map' = [m \in potModules |-> NewGroup(m)]
  /\ reverse_module_hoisted_group_map' = [m \in potModules |-> m]
  /\ hpc' = IF concatenate_modules THEN "merge" ELSE "collect"
  /\ UNCHANGED <<hoistInputs, merged_scope_hoisted_module_groups_map, res>>
  /\ UNCHANGED outsideHoist

\* lines 91-145: sort the groups and decide the merges
MergeGroups ==
  /\ hpc = "merge"
  /\ \E sorted \in TopologicalOrders(potModules, executionOrder) :
       LET r == MergeLoop(sorted, 1, potModules, dependents, executionOrder,
                          scope_hoisted_module_groups_map,
                          reverse_module_hoisted_group_map, EmptyMap)
       IN /\ reverse_module_hoisted_group_map' = r.reverse
          /\ merged_scope_hoisted_module_groups_map' = r.merged
  /\ hpc' = "extend"
  /\ UNCHANGED <<hoistInputs, scope_hoisted_module_groups_map, res>>
  /\ UNCHANGED outsideHoist

\* lines 147-164: move the merged groups into their targets
ExtendGroups ==
  /\ hpc = "extend"
  /\ \E iter \in IterationOrders(DOMAIN merged_scope_hoisted_module_groups_map) :
       LET r == ExtendLoop(iter, 1, merged_scope_hoisted_module_groups_map,
                           scope_hoisted_module_groups_map)
       IN /\ hpc' = IF r.panicked THEN "panic" ELSE "collect"
          /\ scope_hoisted_module_groups_map' = r.groups
  /\ UNCHANGED <<hoistInputs, reverse_module_hoisted_group_map,
                 merged_scope_hoisted_module_groups_map, res>>
  /\ UNCHANGED outsideHoist

\* lines 167-172: collect and sort the result
CollectResult ==
  /\ hpc = "collect"
  /\ res' \in CollectedResults(scope_hoisted_module_groups_map)
  /\ hpc' = "done"
  /\ UNCHANGED <<hoistInputs, scope_hoisted_module_groups_map,
                 reverse_module_hoisted_group_map, merged_scope_hoisted_module_groups_map>>
  /\ UNCHANGED outsideHoist

HoistNext ==
  \/ SeedGroups
  \/ MergeGroups
  \/ ExtendGroups
  \/ CollectResult

\* build_scope_hoisted_module_groups is not running
HoistIdle ==
  /\ potModules = {}
  /\ dependents = EmptyMap
  /\ executionOrder = EmptyMap
  /\ dynamicEdges = {}
  /\ concatenate_modules = FALSE
  /\ hpc = "idle"
  /\ scope_hoisted_module_groups_map = EmptyMap
  /\ reverse_module_hoisted_group_map = EmptyMap
  /\ merged_scope_hoisted_module_groups_map = EmptyMap
  /\ res = <<>>

\* a call of build_scope_hoisted_module_groups
HoistStart == HoistInit /\ RegenIdle /\ UpdIdle /\ BaIdle /\ RtIdle

SpecHoist == HoistStart /\ [][HoistNext]_vars

(***************************************************************************)
(* Properties of build_scope_hoisted_module_groups.                        *)
(***************************************************************************)
\* the positions of res
Groups == 1..Len(res)

\* the function has returned res
Returned == hpc = "done"

\* the merge loop has run (the merged map of this call is final)
MergeDecided == concatenate_modules /\ hpc \in {"extend", "collect", "done", "panic"}

\* a and b import each other and nothing else imports them
TwoCycle(a, b) ==
  /\ a # b
  /\ a \in potModules /\ b \in potModules
  /\ dependents[a] = {b} /\ dependents[b] = {a}

\* some merged entry holds module g
MergedSomewhere(g) ==
  \E d \in DOMAIN merged_scope_hoisted_module_groups_map :
    g \in merged_scope_hoisted_module_groups_map[d]

\* C1: with concatenation enabled or disabled, and for every module graph,
\* the function returns, and the returned list is a partition of the pot's
\* modules: every module of the pot is in exactly one group, every group
\* holds its own root, no group holds a module outside the pot.
C1_ResultPartitionsPot ==
  /\ hpc # "panic"
  /\ Returned =>
       /\ \A m \in potModules :
            Cardinality({i \in Groups : m \in res[i].hoisted_module_ids}) = 1
       /\ \A i \in Groups :
            /\ res[i].target_hoisted_module_id \in res[i].hoisted_module_ids
            /\ res[i].hoisted_module_ids \subseteq potModules

\* C2: in the result, every member of a group that is not the group's root
\* has all of its dependents inside the pot and inside that same group; a
\* module with a dependent outside the pot is the root of its own group.
C2_MemberDependentsInSameGroup ==
  Returned =>
    /\ \A i \in Groups :
         \A m \in res[i].hoisted_module_ids \ {res[i].target_hoisted_module_id} :
           /\ dependents[m] \subseteq potModules
           /\ dependents[m] \subseteq res[i].hoisted_module_ids
    /\ \A m \in potModules :
         HasDependentOutsidePot(dependents[m], potModules) =>
           \E i \in Groups : res[i].target_hoisted_module_id = m

\* C2's case: a result with a merged member and a root kept apart by a
\* dependent outside the pot
C2_Witness ==
  /\ Returned
  /\ \E i \in Groups : Cardinality(res[i].hoisted_module_ids) >= 2
  /\ \E m \in potModules : HasDependentOutsidePot(dependents[m], potModules)

\* C3: a module g is merged into a group d only when d's root has a strictly
\* greater execution order than g (never into itself or an equal order), for
\* every module graph, and the function does not panic.
C3_MergeOnlyIntoStrictlyLaterRoot ==
  /\ hpc # "panic"
  /\ \A d \in DOMAIN merged_scope_hoisted_module_groups_map :
       \A g \in merged_scope_hoisted_module_groups_map[d] :
         executionOrder[d] > executionOrder[g]

\* C4 as claimed: two modules of the pot that import each other, with no
\* other dependents, are returned in two different groups.
C4_TwoCycleKeptApart ==
  (Returned /\ concatenate_modules) =>
    \A a, b \in potModules :
      TwoCycle(a, b) =>
        ~\E i \in Groups : {a, b} \subseteq res[i].hoisted_module_ids

\* C4 as amended: of two modules of the pot that import each other, with no
\* other dependents, the one with the greater execution order is never
\* merged (the back edge is skipped) and the other one is merged into it, so
\* the result holds both in one group rooted at the later module.
C4_TwoCycleMergedIntoLaterModule ==
  \A a, b \in potModules :
    (TwoCycle(a, b) /\ executionOrder[a] > executionOrder[b]) =>
      /\ MergeDecided =>
           /\ a \in DOMAIN merged_scope_hoisted_module_groups_map
           /\ b \in merged_scope_hoisted_module_groups_map[a]
           /\ ~MergedSomewhere(a)
      /\ (Returned /\ concatenate_modules) =>
           \E i \in Groups :
             /\ res[i].target_hoisted_module_id = a
             /\ {a, b} \subseteq res[i].hoisted_module_ids

\* C4's case: the function returned for a pot with a two-module cycle
C4_Witness ==
  /\ Returned /\ concatenate_modules
  /\ \E a, b \in potModules : TwoCycle(a, b)

\* C5: a module reached from its importer through a dynamic import is never
\* merged into the importer's group.
C5_DynamicImportNotMerged ==
  Returned =>
    \A e \in dynamicEdges :
      ~\E i \in Groups :
         /\ {e[1], e[2]} \subseteq res[i].hoisted_module_ids
         /\ res[i].target_hoisted_module_id # e[2]

\* one run of the function with fixed iteration orders of its hash maps
ReferenceRun ==
  LET seed == [m \in potModules |-> NewGroup(m)]
      sorted == CHOOSE s \in TopologicalOrders(potModules, executionOrder) : TRUE
      m == MergeLoop(sorted, 1, potModules, dependents, executionOrder, seed,
                     [x \in potModules |-> x], EmptyMap)
      iter == CHOOSE s \in IterationOrders(DOMAIN m.merged) : TRUE
  IN IF concatenate_modules THEN ExtendLoop(iter, 1, m.merged, seed)
     ELSE [panicked |-> FALSE, groups |-> seed]

\* C6: the returned list ascends strictly by the root's id string, and the
\* outcome is a function of the inputs: whatever the iteration orders of the
\* hash maps, a run ends as the reference run does, with the same groups in
\* the same order.
C6_ResultDeterministic ==
  (hpc \in {"done", "panic"}) =>
    LET ref == ReferenceRun
    IN /\ (hpc = "panic") = ref.panicked
       /\ Returned =>
            /\ \A i, j \in Groups :
                 i < j => StrLess(IdToString(res[i].target_hoisted_module_id),
                                  IdToString(res[j].target_hoisted_module_id))
            /\ {res[i].target_hoisted_module_id : i \in Groups} = DOMAIN ref.groups
            /\ \A i \in Groups :
                 res[i].hoisted_module_ids = ref.groups[res[i].target_hoisted_module_id]

\* C6's case: a result of several groups whose merged map had two entries,
\* so that the iteration order of the hash map was a real choice
C6_Witness ==
  /\ Returned
  /\ Len(res) >= 2
  /\ Cardinality(DOMAIN merged_scope_hoisted_module_groups_map) >= 2

(***************************************************************************)
(* regenerate_resources_for_affected_module_groups                         *)
(* (compiler/src/update/regenerate_resources.rs)                           *)
(***************************************************************************)
\* Option<ResourcePotId>
None == <<>>

Some(id) == <<id>>

\* the module groups, named by their entry module: "a" and "b" and "c"
ModuleGroupIds == {<<97>>, <<98>>, <<99>>}

\* module_group.modules(): group "a" holds "a" and "ab", the others one module
ModuleGroupModules(g) == IF g = <<97>> THEN {<<97>>, <<97, 98>>} ELSE {g}

\* the modules of the module graph
AllModules == UNION {ModuleGroupModules(g) : g \in ModuleGroupIds}

\* the module group of a module
ModuleGroupOf(m) == CHOOSE g \in ModuleGroupIds : m \in ModuleGroupModules(g)

\* the ids the partial-bundling hook gives to the resource pots of a group
PotIdsOf(g) == {<<g, i>> : i \in 1..MaxPotsPerGroup}

\* the names of the resources that rendering a pot emits
EmittedResources(id, withMap) ==
  IF withMap THEN {<<id, "js">>, <<id, "map">>} ELSE {<<id, "js">>}

\* the resource pots of one way to bundle a group: each module of the group
\* in one pot (ResourcePot::new, add_module), in the order the hook returns them
BundledPots(g, assignment) ==
  LET ids == {assignment[m] : m \in ModuleGroupModules(g)}
      order == CHOOSE o \in IterationOrders(ids) : TRUE
  IN [i \in 1..Len(order) |->
        [id |-> order[i],
         modules |-> {m \in ModuleGroupModules(g) : assignment[m] = order[i]},
         resources |-> {}]]

\* call_partial_bundling_hook: an error, or the new resource pots of the group
HookResults(g) ==
  {[ok |-> FALSE, resource_pots |-> <<>>]}
    \cup {[ok |-> TRUE, resource_pots |-> BundledPots(g, a)] :
            a \in [ModuleGroupModules(g) -> PotIdsOf(g)]}

\* the partial-bundling hook records on every module it bundles the pot it
\* put the module in
AssignResourcePots(module_pot, resource_pots) ==
  [m \in DOMAIN module_pot |->
     IF \E i \in 1..Len(resource_pots) : m \in resource_pots[i].modules
     THEN Some(resource_pots[CHOOSE i \in 1..Len(resource_pots) :
                                m \in resource_pots[i].modules].id)
     ELSE module_pot[m]]

\* lines 171-183: clear_resource_pot_of_modules_in_module_group
ClearResourcePotOfModules(module_pot, g) ==
  [m \in DOMAIN module_pot |-> IF m \in ModuleGroupModules(g) THEN None ELSE module_pot[m]]

\* a plausible slip of line 86: the error of a group is dropped and the loop goes on
HookErrorIgnored == "run"

\* line 86 and line 133: the ? operators return the hook's error to the caller
HookErrorReturned == "hook_err"

\* a plausible slip of lines 143-154: no previous pot is taken for obsolete
ObsoleteNone(previous_resource_pots, resource_pots_ids) == {}

\* lines 143-144: the previous pots of the group that the hook no longer returns
ObsoletePots(previous_resource_pots, resource_pots_ids) ==
  {id \in previous_resource_pots : id \notin resource_pots_ids}

\* a plausible slip of lines 159-164: every pot that the hook returned is added
AllReturnedPots(resource_pots, previous_resource_pots) == resource_pots

\* lines 159-164: the pots of the hook whose id is not in the previous set of
\* the group
NewResourcePots(resource_pots, previous_resource_pots) ==
  SelectSeq(resource_pots, LAMBDA pot : pot.id \notin previous_resource_pots)

\* resource_pot.clear_resources()
ClearResources(pot) == [pot EXCEPT !.resources = {}]

\* a plausible slip of lines 99-101: the owning pot is never added
PushNever(ids, id) == ids

\* lines 99-101: push the id unless the Vec contains it
PushIfAbsent(ids, id) == IF id \in Range(ids) THEN ids ELSE Append(ids, id)

\* lines 113-117: the pots of the map whose id is in affected_resource_pots_ids,
\* in the order resource_pots_mut() yields them
AffectedPotOrders(pot_map, ids) ==
  IterationOrders({id \in DOMAIN pot_map : id \in Range(ids)})

\* render_resource_pots_and_generate_resources: every pot handed over gets
\* its resources emitted again
RenderedPotMap(pot_map, handed, withMap) ==
  [id \in DOMAIN pot_map |->
     IF id \in Range(handed)
     THEN [pot_map[id] EXCEPT !.resources = EmittedResources(id, withMap)]
     ELSE pot_map[id]]

\* the bundlings a finished build may have left: every module in a pot of
\* its group.  The pot ids of a group are names only, so the pots of a group
\* are numbered in the order of their first modules.
IsPreviousBundling(bundling) ==
  \A m \in AllModules :
    LET g == ModuleGroupOf(m)
        earlier == {n \in ModuleGroupModules(g) : StrLess(IdToString(n), IdToString(m))}
    IN /\ bundling[m] \in PotIdsOf(g)
       /\ \/ \E n \in earlier : bundling[n] = bundling[m]
          \/ bundling[m][2] = Cardinality({bundling[n] : n \in earlier}) + 1

\* the states a finished build leaves behind: every group bundled by the
\* hook, every pot rendered
RegenInit ==
  /\ sourcemap \in BOOLEAN
  /\ \E bundling \in [AllModules -> UNION {PotIdsOf(g) : g \in ModuleGroupIds}] :
       LET pots(g) == BundledPots(g, bundling)
           all == UNION {Range(pots(g)) : g \in ModuleGroupIds}
       IN /\ IsPreviousBundling(bundling)
          /\ module_resource_pot = [m \in AllModules |-> Some(bundling[m])]
          /\ module_group_resource_pots =
               [g \in ModuleGroupIds |-> {pots(g)[i].id : i \in 1..Len(pots(g))}]
          /\ resource_pot_map =
               [id \in {pot.id : pot \in all} |->
                  [(CHOOSE pot \in all : pot.id = id)
                     EXCEPT !.resources = EmittedResources(id, sourcemap)]]
          /\ resources_map =
               UNION {EmittedResources(pot.id, sourcemap) : pot \in all}
  /\ affected_module_groups \in SUBSET ModuleGroupIds
  /\ updated_module_ids \in
       {CHOOSE o \in IterationOrders(S) : TRUE : S \in SUBSET AllModules}
  /\ rpc = "run"
  /\ groups_left = affected_module_groups
  /\ updated_next = 1
  /\ affected_resource_pots_ids = <<>>
  /\ rendered = <<>>
  /\ pre = [module_resource_pot |-> module_resource_pot,
            module_group_resource_pots |-> module_group_resource_pots,
            resource_pot_map |-> resource_pot_map,
            resources_map |-> resources_map]
  /\ failed_group = {}
  /\ removed_by_diff = [pots |-> {}, resources |-> {}]
  /\ hook_results = EmptyMap

regenInputs == <<sourcemap, affected_module_groups, updated_module_ids, pre>>

\* lines 84-89 and 122-169: one round of the first loop: generate_and_diff_resource_pots
\* of an affected group
GenerateAndDiffResourcePots ==
  /\ rpc = "run"
  /\ \E module_group_id \in groups_left : \E hook \in HookResults(module_group_id) :
       LET cleared == ClearResourcePotOfModules(module_resource_pot, module_group_id)
           resource_pots == hook.resource_pots
           resource_pots_ids == [i \in 1..Len(resource_pots) |-> resource_pots[i].id]
           previous_resource_pots == module_group_resource_pots[module_group_id]
           obsolete == ObsoletePots(previous_resource_pots, Range(resource_pots_ids))
           added == NewResourcePots(resource_pots, previous_resource_pots)
           new_resource_pot_ids == [i \in 1..Len(added) |-> added[i].id]
       IN /\ groups_left' = groups_left \ {module_group_id}
          /\ IF ~hook.ok
             THEN /\ module_resource_pot' = cleared
                  /\ rpc' = HookErrorReturned
                  /\ failed_group' = failed_group \cup {module_group_id}
                  /\ UNCHANGED <<module_group_resource_pots, resource_pot_map, resources_map,
                                 affected_resource_pots_ids, removed_by_diff, hook_results>>
             ELSE IF ~(obsolete \subseteq DOMAIN resource_pot_map)
             THEN /\ module_resource_pot' = AssignResourcePots(cleared, resource_pots)
                  /\ rpc' = "panic"
                  /\ UNCHANGED <<module_group_resource_pots, resource_pot_map, resources_map,
                                 affected_resource_pots_ids, removed_by_diff, failed_group,
                                 hook_results>>
             ELSE /\ module_resource_pot' = AssignResourcePots(cleared, resource_pots)
                  /\ resource_pot_map' =
                       [id \in ((DOMAIN resource_pot_map) \ obsolete) \cup Range(new_resource_pot_ids) |->
                          IF id \in Range(new_resource_pot_ids)
                          THEN added[CHOOSE i \in 1..Len(added) : added[i].id = id]
                          ELSE resource_pot_map[id]]
                  /\ resources_map' =
                       resources_map \ UNION {resource_pot_map[id].resources : id \in obsolete}
                  /\ module_group_resource_pots' =
                       [module_group_resource_pots EXCEPT ![module_group_id] = Range(resource_pots_ids)]
                  /\ affected_resource_pots_ids' = affected_resource_pots_ids \o new_resource_pot_ids
                  /\ removed_by_diff' =
                       [pots |-> removed_by_diff.pots \cup obsolete,
                        resources |-> removed_by_diff.resources
                                        \cup UNION {resource_pot_map[id].resources : id \in obsolete}]
                  /\ hook_results' =
                       MapInsert(hook_results, module_group_id, Range(resource_pots_ids))
                  /\ UNCHANGED <<rpc, failed_group>>
  /\ UNCHANGED <<regenInputs, updated_next, rendered>>
  /\ UNCHANGED outsideRegen

\* lines 95-111: one round of the second loop: the pot of an updated module
RerenderUpdatedModule ==
  /\ rpc = "run"
  /\ groups_left = {}
  /\ updated_next <= Len(updated_module_ids)
  /\ LET updated_module_id == updated_module_ids[updated_next]
         resource_pot == module_resource_pot[updated_module_id]
     IN IF resource_pot = None \/ resource_pot[1] \notin DOMAIN resource_pot_map
        THEN /\ rpc' = "panic"
             /\ UNCHANGED <<affected_resource_pots_ids, resource_pot_map, resources_map,
                            updated_next>>
        ELSE LET resource_pot_id == resource_pot[1]
                 cleared == ClearResources(resource_pot_map[resource_pot_id])
             IN /\ affected_resource_pots_ids' =
                     PushIfAbsent(affected_resource_pots_ids, resource_pot_id)
                /\ resource_pot_map' = [resource_pot_map EXCEPT ![resource_pot_id] = cleared]
                /\ resources_map' = resources_map \ cleared.resources
                /\ updated_next' = updated_next + 1
                /\ UNCHANGED rpc
  /\ UNCHANGED <<regenInputs, module_resource_pot, module_group_resource_pots, groups_left,
                 rendered, failed_group, removed_by_diff, hook_results>>
  /\ UNCHANGED outsideRegen

\* lines 113-119: hand the affected pots to render_resource_pots_and_generate_resources
RenderAffectedPots ==
  /\ rpc = "run"
  /\ groups_left = {}
  /\ updated_next > Len(updated_module_ids)
  /\ \E handed \in AffectedPotOrders(resource_pot_map, affected_resource_pots_ids),
        ok \in BOOLEAN :
       /\ rendered' = handed
       /\ IF ok
          THEN /\ rpc' = "ok"
               /\ resource_pot_map' = RenderedPotMap(resource_pot_map, handed, sourcemap)
               /\ resources_map' =
                    resources_map \cup UNION {EmittedResources(handed[i], sourcemap) : i \in 1..Len(handed)}
          ELSE /\ rpc' = "render_err"
               /\ UNCHANGED <<resource_pot_map, resources_map>>
  /\ UNCHANGED <<regenInputs, module_resource_pot, module_group_resource_pots, groups_left,
                 updated_next, affected_resource_pots_ids, failed_group, removed_by_diff,
                 hook_results>>
  /\ UNCHANGED outsideRegen

RegenNext ==
  \/ GenerateAndDiffResourcePots
  \/ RerenderUpdatedModule
  \/ RenderAffectedPots

\* an update starts after a finished build
RegenStart == RegenInit /\ HoistIdle /\ UpdIdle /\ BaIdle /\ RtIdle

SpecRegen == RegenStart /\ [][RegenNext]_vars

(***************************************************************************)
(* Claims about regenerate_resources_for_affected_module_groups            *)
(***************************************************************************)
\* the function returned the error of the partial-bundling hook
HookFailed == failed_group # {}

\* step 2 is over and the pots are not yet handed to the renderer
AfterStepTwo ==
  /\ rpc = "run"
  /\ groups_left = {}
  /\ updated_next > Len(updated_module_ids)

\* the pot that owns the k-th updated module
OwningPot(k) == module_resource_pot[updated_module_ids[k]]

\* C7: when the function returns the error of the partial-bundling hook,
\* every module of every affected module group has the resource_pot it had
\* before the call.
C7_GraphRestoredOnHookError ==
  HookFailed =>
    \A g \in affected_module_groups : \A m \in ModuleGroupModules(g) :
      module_resource_pot[m] = pre.module_resource_pot[m]

\* C8: when the partial-bundling hook fails for an affected group the
\* function returns that error at once: no step of the function follows, the
\* groups not yet processed keep their pots, step 2 has not touched any pot
\* (no updated module visited, no pot's resources cleared), nothing was
\* rendered, and the pots and resources removed for the groups processed
\* before are still removed.
C8_HookErrorReturnsAtOnce ==
  HookFailed =>
    /\ rpc = "hook_err"
    /\ ~ENABLED RegenNext
    /\ \A g \in groups_left :
         /\ module_group_resource_pots[g] = pre.module_group_resource_pots[g]
         /\ \A m \in ModuleGroupModules(g) :
              module_resource_pot[m] = pre.module_resource_pot[m]
         /\ \A id \in module_group_resource_pots[g] :
              /\ id \in DOMAIN resource_pot_map
              /\ resource_pot_map[id] = pre.resource_pot_map[id]
    /\ updated_next = 1
    /\ \A id \in (DOMAIN resource_pot_map) \cap (DOMAIN pre.resource_pot_map) :
         resource_pot_map[id].resources = pre.resource_pot_map[id].resources
    /\ rendered = <<>>
    /\ removed_by_diff.pots \cap DOMAIN resource_pot_map = {}
    /\ removed_by_diff.resources \cap resources_map = {}

\* C8's case: the hook failed after an earlier group had pots removed, while
\* a further group and updated modules were still waiting
C8_Witness ==
  /\ HookFailed
  /\ removed_by_diff.pots # {}
  /\ removed_by_diff.resources # {}
  /\ groups_left # {}
  /\ updated_module_ids # <<>>

\* C9: when the function returns successfully, the resource pot recorded on
\* every updated module is among the pots handed to the renderer, exactly
\* once.
C9_OwningPotRenderedOnce ==
  (rpc = "ok") =>
    \A k \in 1..Len(updated_module_ids) :
      /\ OwningPot(k) # None
      /\ Cardinality({i \in 1..Len(rendered) : Some(rendered[i]) = OwningPot(k)}) = 1

\* C9's case: a successful call with two updated modules that share a pot,
\* an updated module of an affected group and one of a group not affected
C9_Witness ==
  /\ rpc = "ok"
  /\ \E j, k \in 1..Len(updated_module_ids) : j # k /\ OwningPot(j) = OwningPot(k)
  /\ \E k \in 1..Len(updated_module_ids) :
       ModuleGroupOf(updated_module_ids[k]) \in affected_module_groups
  /\ \E k \in 1..Len(updated_module_ids) :
       ModuleGroupOf(updated_module_ids[k]) \notin affected_module_groups

\* C10: after step 2 and before rendering, the owning pot of every updated
\* module lists no resources and every resource name it listed before the
\* call is gone from resources_map.
C10_OwningPotResourcesRemoved ==
  AfterStepTwo =>
    \A k \in 1..Len(updated_module_ids) :
      LET id == OwningPot(k)[1]
      IN /\ resource_pot_map[id].resources = {}
         /\ id \in DOMAIN pre.resource_pot_map =>
              pre.resource_pot_map[id].resources \cap resources_map = {}

\* the first loop is still running or has just ended: no updated module has
\* been visited and nothing was handed to the renderer
InFirstLoop == rpc \in {"run", "hook_err"} /\ updated_next = 1

\* C11: after generate_and_diff_resource_pots succeeded for a group with hook
\* result R, the group's resource_pots are the ids of R, every id of R is in
\* resource_pot_map, and every previous pot of the group that is not in R is
\* gone from resource_pot_map together with the resources it listed.
C11_DiffAppliedToGroup ==
  InFirstLoop =>
    \A g \in DOMAIN hook_results :
      /\ module_group_resource_pots[g] = hook_results[g]
      /\ hook_results[g] \subseteq DOMAIN resource_pot_map
      /\ \A id \in pre.module_group_resource_pots[g] \ hook_results[g] :
           /\ id \notin DOMAIN resource_pot_map
           /\ pre.resource_pot_map[id].resources \cap resources_map = {}

\* C11's case: a group was bundled again, lost a previous pot that listed
\* resources and got a new one
C11_Witness ==
  /\ InFirstLoop
  /\ \E g \in DOMAIN hook_results :
       /\ \E id \in pre.module_group_resource_pots[g] \ hook_results[g] :
            pre.resource_pot_map[id].resources # {}
       /\ hook_results[g] \ pre.module_group_resource_pots[g] # {}

(***************************************************************************)
(* render_and_generate_update_resource                                     *)
(* (compiler/src/update/regenerate_resources.rs, lines 29-75)              *)
(***************************************************************************)
\* the sequences over S of length at most n
RECURSIVE SeqsUpTo(_, _)
SeqsUpTo(S, n) ==
  IF n = 0 THEN {<<>>}
  ELSE LET shorter == SeqsUpTo(S, n - 1)
       IN shorter \cup {Append(q, x) : q \in {t \in shorter : Len(t) = n - 1}, x \in S}

\* ResourcePot::add_module: the modules of a pot are a set, a module that is
\* already in the pot is not added again
AddModule(modules, id) == IF id \in Range(modules) THEN modules ELSE Append(modules, id)

\* a plausible slip of lines 44-46: the loop over updated_module_ids is missing
OnlyAddedModules(added, updated) == added

\* lines 40-46: the modules handed to add_module, in order: the added ones,
\* then the updated ones
ModulesToAdd(added, updated) == added \o updated

RECURSIVE AddModules(_, _, _)
AddModules(modules, ids, i) ==
  IF i > Len(ids) THEN modules
  ELSE AddModules(AddModule(modules, ids[i]), ids, i + 1)

\* the ids of a set in ascending order of their strings (sort_by of the
\* rendered modules)
RECURSIVE SortedIds(_)
SortedIds(S) ==
  IF S = {} THEN <<>>
  ELSE LET least == CHOOSE x \in S : \A y \in S \ {x} : StrLess(IdToString(x), IdToString(y))
       IN <<least>> \o SortedIds(S \ {least})

\* resource_pot_to_runtime_object: one rendered module per occurrence of a
\* module in resource_pot.modules(), the props sorted by module id
RECURSIVE RuntimeObjectKeys(_)
RuntimeObjectKeys(modules) ==
  IF modules = <<>> THEN <<>>
  ELSE LET keys == SortedIds(Range(modules))
           times(id) == Cardinality({i \in 1..Len(modules) : modules[i] = id})
           repeat(id) == [i \in 1..times(id) |-> id]
           RECURSIVE Flat(_)
           Flat(k) == IF k > Len(keys) THEN <<>> ELSE repeat(keys[k]) \o Flat(k + 1)
       IN Flat(1)

\* the calls of render_and_generate_update_resource: the module graph was
\* patched by the diff, so the added modules are not modules of the previous
\* graph and the updated modules are modules of the graph
UpdInit ==
  /\ previous_modules \in SUBSET ModuleIds
  /\ added_modules \in SeqsUpTo(ModuleIds \ previous_modules, MaxUpdateIds)
  /\ payload_module_ids \in SeqsUpTo(previous_modules \cup Range(added_modules), MaxUpdateIds)
  /\ upc = "build"
  /\ update_resource_pot = <<>>
  /\ object_lit = <<>>
  /\ payload = <<>>

updInputs == <<previous_modules, added_modules, payload_module_ids>>

\* lines 34-46: ResourcePot::new and the two add_module loops
BuildUpdateResourcePot ==
  /\ upc = "build"
  /\ update_resource_pot' =
       AddModules(<<>>, ModulesToAdd(added_modules, payload_module_ids), 1)
  /\ upc' = "object_lit"
  /\ UNCHANGED <<updInputs, object_lit, payload>>
  /\ UNCHANGED outsideUpd

\* lines 48-61: the runtime object literal of the update pot becomes its ast;
\* a module of the pot that the module graph does not hold is a panic
RenderUpdateObjectLit ==
  /\ upc = "object_lit"
  /\ IF Range(update_resource_pot) \subseteq previous_modules \cup Range(added_modules)
     THEN /\ object_lit' = RuntimeObjectKeys(update_resource_pot)
          /\ upc' = "generate"
     ELSE /\ upc' = "panic"
          /\ UNCHANGED object_lit
  /\ UNCHANGED <<updInputs, update_resource_pot, payload>>
  /\ UNCHANGED outsideUpd

\* lines 63-74: render_resource_pot_generate_resources fails, or the js
\* resource of the pot is returned as a String
GenerateUpdateResource ==
  /\ upc = "generate"
  /\ \E ok \in BOOLEAN :
       IF ok
       THEN /\ payload' = object_lit
            /\ upc' = "ok"
       ELSE /\ upc' = "err"
            /\ UNCHANGED payload
  /\ UNCHANGED <<updInputs, update_resource_pot, object_lit>>
  /\ UNCHANGED outsideUpd

UpdNext ==
  \/ BuildUpdateResourcePot
  \/ RenderUpdateObjectLit
  \/ GenerateUpdateResource

\* a call of render_and_generate_update_resource
UpdStart == UpdInit /\ HoistIdle /\ RegenIdle /\ BaIdle /\ RtIdle

SpecUpd == UpdStart /\ [][UpdNext]_vars

\* how often a module occurs in a sequence of modules
Occurrences(modules, id) == Cardinality({i \in 1..Len(modules) : modules[i] = id})

\* C12: the update resource pot holds every added and every updated module
\* exactly once and no other module, so that the returned payload has a
\* factory for these modules and for no other module of the previous graph.
C12_UpdatePotIsAddedAndUpdated ==
  /\ upc \in {"object_lit", "generate", "ok", "err"} =>
       /\ Range(update_resource_pot) = Range(added_modules) \cup Range(payload_module_ids)
       /\ \A id \in Range(update_resource_pot) : Occurrences(update_resource_pot, id) = 1
  /\ upc = "ok" =>
       /\ Range(payload) = Range(added_modules) \cup Range(payload_module_ids)
       /\ \A id \in Range(payload) : Occurrences(payload, id) = 1

\* C12's case: a payload was returned for an update with an added module and
\* an updated module while a module of the previous graph was left untouched
C12_Witness ==
  /\ upc = "ok"
  /\ added_modules # <<>>
  /\ Range(payload_module_ids) \cap previous_modules # {}
  /\ previous_modules \ Range(payload_module_ids) # {}
  /\ Len(payload) >= 2

(***************************************************************************)
(* BundleAnalyzer::strip_module                                            *)
(* (plugin_bundle/src/resource_pot_to_bundle/bundle/bundle_analyzer.rs,    *)
(*  lines 142-212)                                                         *)
(***************************************************************************)
\* the modules the module analyzer manager holds an analyzer for: "a" and
\* "b"; "c" is a module outside the build (an external package)
AnalyzedModules == {<<97>>, <<98>>}

ExternalModule == <<99>>

\* ModuleSystem
ModuleSystems == {"EsModule", "CommonJs", "Hybrid"}

\* ModuleAnalyzer::is_commonjs: the module is wrapped as a CommonJS module
IsCommonjs(module_system) == module_system \in {"CommonJs", "Hybrid"}

\* ModuleAnalyzerManager::is_commonjs: false for a module without analyzer
ManagerIsCommonjs(analyzers, module_id) ==
  /\ module_id \in DOMAIN analyzers
  /\ IsCommonjs(analyzers[module_id].module_system)

\* StmtAction
RemoveImport(id) == <<"RemoveImport", id, None>>

StripCjsImport(id, source) == <<"StripCjsImport", id, source>>

StripExport(id) == <<"StripExport", id, None>>

StripDefaultExport(id, index) == <<"StripDefaultExport", id, Some(index)>>

DeclDefaultExpr(id, index) == <<"DeclDefaultExpr", id, Some(index)>>

\* bundle_variable.name(index): the variables are named by their names
VariableName(index) == index

\* a plausible slip of lines 153-166: the two branches are exchanged
ImportActionsSwapped(id, import, source_is_commonjs) ==
  IF ~source_is_commonjs
  THEN {StripCjsImport(id, IF import.specifiers = <<>> THEN Some(import.source) ELSE None)}
  ELSE {RemoveImport(id)}

\* lines 153-166: the action of an import statement
ImportActions(id, import, source_is_commonjs) ==
  IF source_is_commonjs
  THEN {StripCjsImport(id, IF import.specifiers = <<>> THEN Some(import.source) ELSE None)}
  ELSE {RemoveImport(id)}

\* lines 182-200: the action of one specifier of an export without source
SpecifierAction(id, specify) ==
  IF specify[1] \in {"All", "Named"} THEN StripExport(id)
  ELSE IF VariableName(specify[2]) = "default" THEN DeclDefaultExpr(id, specify[2])
  ELSE StripDefaultExport(id, specify[2])

\* a plausible slip of lines 179-181: an export with a source is passed over
ExportActionsWithoutSource(id, export, module_is_commonjs) ==
  IF module_is_commonjs THEN {}
  ELSE IF export.specifiers = <<>> THEN {StripExport(id)}
  ELSE IF export.source # None THEN {}
  ELSE {SpecifierAction(id, export.specifiers[i]) : i \in 1..Len(export.specifiers)}

\* lines 169-202: the actions of an export statement
ExportActions(id, export, module_is_commonjs) ==
  IF module_is_commonjs THEN {}
  ELSE IF export.specifiers = <<>> \/ export.source # None THEN {StripExport(id)}
  ELSE {SpecifierAction(id, export.specifiers[i]) : i \in 1..Len(export.specifiers)}

\* lines 151-203: the actions collected for the statements of one module
StmtActionsOfModule(analyzers, module_id) ==
  LET module_analyzer == analyzers[module_id]
      statements == module_analyzer.statements
      of(statement) ==
        (IF statement.import # None
         THEN ImportActions(statement.id, statement.import[1],
                            ManagerIsCommonjs(analyzers, statement.import[1].source))
         ELSE {})
        \cup
        (IF statement.export # None
         THEN ExportActions(statement.id, statement.export[1],
                            IsCommonjs(module_analyzer.module_system))
         ELSE {})
  IN UNION {of(statements[i]) : i \in 1..Len(statements)}

\* the import descriptors a statement of module m may carry: a side-effect
\* import or an import with specifiers, of another analyzed module or of the
\* external module
ImportShapes(m) ==
  {[source |-> src, specifiers |-> sp] :
     src \in (AnalyzedModules \cup {ExternalModule}) \ {m},
     sp \in {<<>>, <<<<"Named", "x">>>>}}

\* the export descriptors a statement may carry: export {}, export * from,
\* export { x } from, export * as ns from, export { x }, export default
\* <expression> and export default n
ExportShapes ==
  {[source |-> None, specifiers |-> <<>>],
   [source |-> Some(ExternalModule), specifiers |-> <<<<"All", "*">>>>],
   [source |-> Some(ExternalModule), specifiers |-> <<<<"Named", "x">>>>],
   [source |-> Some(ExternalModule), specifiers |-> <<<<"Namespace", "ns">>>>],
   [source |-> None, specifiers |-> <<<<"Named", "x">>>>],
   [source |-> None, specifiers |-> <<<<"Default", "default">>>>],
   [source |-> None, specifiers |-> <<<<"Default", "n">>>>]}

\* the statements of module m, without their ids: a statement carries an
\* import descriptor, an export descriptor or neither
StatementShapes(m) ==
  {[import |-> None, export |-> None]}
    \cup {[import |-> Some(i), export |-> None] : i \in ImportShapes(m)}
    \cup {[import |-> None, export |-> Some(e)] : e \in ExportShapes}

\* module_analyzer.statements: the statement id is the position
Statements(shapes) ==
  [i \in 1..Len(shapes) |->
     [id |-> i, import |-> shapes[i].import, export |-> shapes[i].export]]

\* the bundles: "a" alone, or "a" and "b"
BundleOrders == {<<(<<97>>)>>, <<(<<97>>), (<<98>>)>>}

\* the statements of the analyzed modules: those of the bundle's modules
\* count against MaxStatements, a module of another bundle is not looked into
StatementsOfBundle(order) ==
  LET lengths == {l \in (0..MaxStatements) \X (0..MaxStatements) :
                    /\ <<98>> \notin Range(order) => l[2] = 0
                    /\ l[1] + l[2] <= MaxStatements}
  IN UNION {{[m \in AnalyzedModules |-> IF m = <<97>> THEN sa ELSE sb] :
               sa \in [1..l[1] -> StatementShapes(<<97>>)],
               sb \in [1..l[2] -> StatementShapes(<<98>>)]} : l \in lengths}

\* link_module_relation is not running
LinkIdle ==
  /\ link_module_id = <<>>
  /\ importers = {}
  /\ namespace_modules = {}
  /\ bundle_references = <<>>
  /\ variable_ops = {}
  /\ is_contain_export = FALSE
  /\ is_reference_by_another = FALSE
  /\ is_format_to_commonjs = FALSE
  /\ find_results = <<>>

\* the calls of strip_module: statement_actions may hold actions recorded
\* earlier
StripInit ==
  /\ ordered_modules \in BundleOrders
  /\ \E systems \in [AnalyzedModules -> ModuleSystems],
        st \in StatementsOfBundle(ordered_modules) :
       module_analyzers =
         [m \in AnalyzedModules |->
            [module_system |-> systems[m], statements |-> Statements(st[m])]]
  /\ statement_actions \in
       {[m \in AnalyzedModules |-> IF m = <<97>> THEN earlier ELSE {}] :
          earlier \in {{}, {RemoveImport(0)}}}
  /\ bapc = "strip"
  /\ ba_index = 1
  /\ earlier_actions = statement_actions

\* lines 147-209: one round of the loop over ordered_modules
StripModule ==
  /\ bapc = "strip"
  /\ ba_index <= Len(ordered_modules)
  /\ LET module_id == ordered_modules[ba_index]
         stmt_action == IF module_id \in DOMAIN module_analyzers
                        THEN StmtActionsOfModule(module_analyzers, module_id)
                        ELSE {}
     IN statement_actions' =
          IF module_id \in DOMAIN module_analyzers
          THEN [statement_actions EXCEPT ![module_id] = @ \cup stmt_action]
          ELSE statement_actions
  /\ ba_index' = ba_index + 1
  /\ UNCHANGED <<ordered_modules, module_analyzers, bapc, earlier_actions, linkVars,
                 patchVars, codegenVars>>
  /\ UNCHANGED outsideBa

\* line 211: Ok(())
StripReturn ==
  /\ bapc = "strip"
  /\ ba_index > Len(ordered_modules)
  /\ bapc' = "stripped"
  /\ UNCHANGED <<ordered_modules, module_analyzers, statement_actions, ba_index,
                 earlier_actions, linkVars, patchVars, codegenVars>>
  /\ UNCHANGED outsideBa

StripNext ==
  \/ StripModule
  \/ StripReturn

\* a call of strip_module
StripStart == StripInit /\ LinkIdle /\ PatchIdle /\ CodegenIdle /\ HoistIdle /\ RegenIdle /\ UpdIdle /\ RtIdle

SpecStrip == StripStart /\ [][StripNext]_vars

\* the modules of the bundle that the loop of strip_module has gone through
Stripped == {ordered_modules[i] : i \in 1..(ba_index - 1)}

\* the statements of a module
StatementsOf(m) == Range(module_analyzers[m].statements)

\* the actions of a module that bear the id of a statement
ActionsOf(m, statement) == {act \in statement_actions[m] : act[2] = statement.id}

\* the source of an import statement is a CommonJS module
FromCommonjs(statement) ==
  ManagerIsCommonjs(module_analyzers, statement.import[1].source)

\* C13: strip_module records exactly one action for every import statement
\* of every module of the bundle: StripCjsImport when the import has no
\* specifiers and its source is a CommonJS module, RemoveImport for any other
\* import.
C13_RemoveImportUnlessBareCjs ==
  \A m \in Stripped : \A statement \in StatementsOf(m) :
    statement.import # None =>
      ActionsOf(m, statement) =
        IF statement.import[1].specifiers = <<>> /\ FromCommonjs(statement)
        THEN {StripCjsImport(statement.id, Some(statement.import[1].source))}
        ELSE {RemoveImport(statement.id)}

\* C13 as the code has it: strip_module records exactly one action for every
\* import statement of every module of the bundle: StripCjsImport when the
\* source is a CommonJS module (with the source when the import has no
\* specifiers, without it when it has some), RemoveImport when the source is
\* not a CommonJS module.
C13_StripCjsImportForEveryCjsSource ==
  \A m \in Stripped : \A statement \in StatementsOf(m) :
    statement.import # None =>
      ActionsOf(m, statement) =
        IF FromCommonjs(statement)
        THEN {StripCjsImport(statement.id,
                             IF statement.import[1].specifiers = <<>>
                             THEN Some(statement.import[1].source) ELSE None)}
        ELSE {RemoveImport(statement.id)}

\* C13's case: strip_module returned for a bundle with an import with
\* specifiers of a CommonJS module and an import of a module that is not
\* CommonJS
C13_Witness ==
  /\ bapc = "stripped"
  /\ \E m \in Stripped : \E s1, s2 \in StatementsOf(m) :
       /\ s1.import # None /\ s1.import[1].specifiers # <<>> /\ FromCommonjs(s1)
       /\ s2.import # None /\ ~FromCommonjs(s2)

\* strip_module has removed none of the actions recorded before the call
EarlierActionsKept ==
  \A m \in DOMAIN earlier_actions : earlier_actions[m] \subseteq statement_actions[m]

\* C14: after strip_module every statement with an import or an export
\* descriptor, in every module of the bundle whatever its module system, has
\* an action with its statement id, and no action recorded earlier is gone.
C14_EveryImportExportHasAction ==
  /\ EarlierActionsKept
  /\ \A m \in Stripped : \A statement \in StatementsOf(m) :
       (statement.import # None \/ statement.export # None) =>
         ActionsOf(m, statement) # {}

\* C14 as the code has it: after strip_module every statement with an import
\* descriptor, in every module of the bundle, and every statement with an
\* export descriptor, in every module of the bundle that is not a CommonJS
\* module (is_commonjs() is false), has an action with its statement id, and
\* no action recorded earlier is gone.
C14_ActionUnlessExportOfCommonjs ==
  /\ EarlierActionsKept
  /\ \A m \in Stripped : \A statement \in StatementsOf(m) :
       \/ statement.import # None
       \/ statement.export # None /\ ~IsCommonjs(module_analyzers[m].module_system)
       => ActionsOf(m, statement) # {}

\* C14's case: strip_module returned for a bundle of two modules, one of
\* them CommonJS with an import, one not CommonJS with an export, and an
\* action had been recorded before the call
C14_Witness ==
  /\ bapc = "stripped"
  /\ earlier_actions[<<97>>] # {}
  /\ \E m, n \in Stripped :
       /\ IsCommonjs(module_analyzers[m].module_system)
       /\ \E statement \in StatementsOf(m) : statement.import # None
       /\ ~IsCommonjs(module_analyzers[n].module_system)
       /\ \E statement \in StatementsOf(n) : statement.export # None

(***************************************************************************)
(* BundleAnalyzer::link_module_relation                                    *)
(* (bundle_analyzer.rs, lines 218-1010)                                    *)
(***************************************************************************)
\* module_global_uniq_name: the variables that stand for a module's
\* namespace object, for its CommonJS wrapper result and for its default
\* export
NamespaceName(module_id) ==
  CASE module_id = <<97>> -> "a_ns" [] module_id = <<98>> -> "b_ns" [] OTHER -> "c_ns"

CommonjsName(module_id) ==
  CASE module_id = <<97>> -> "a_cjs" [] module_id = <<98>> -> "b_cjs" [] OTHER -> "c_cjs"

DefaultName(module_id) ==
  CASE module_id = <<97>> -> "a_default" [] module_id = <<98>> -> "b_default"
    [] OTHER -> "c_default"

\* what a call on a BundleReference records: the method, the kind of the
\* specifier, its local and its imported / exported-as variable ("" for
\* none), the target module (None for none) and the module system ("" for none)
Recorded(op, kind, local, as, target, system) ==
  [op |-> op, kind |-> kind, local |-> local, as |-> as, target |-> target,
   system |-> system]

AddLocalExport(kind, local, as, system) ==
  Recorded("add_local_export", kind, local, as, None, system)

AddImport(kind, local, imported, target) ==
  Recorded("add_import", kind, local, imported, Some(target), "")

AddDeclareCommonjsImport(kind, local, imported, target) ==
  Recorded("add_declare_commonjs_import", kind, local, imported, Some(target), "")

ExecuteModuleForCjs(target) ==
  Recorded("execute_module_for_cjs", "", "", "", Some(target), "")

AddExecuteModule(target) == Recorded("add_execute_module", "", "", "", Some(target), "")

AddReexportAll(source, system) ==
  Recorded("add_reexport_all", "All", "", "", Some(source), system)

AddReferenceExport(kind, local, as, target, system) ==
  Recorded("add_reference_export", kind, local, as, Some(target), system)

AddEmptyImport(target) == Recorded("add_empty_import", "", "", "", Some(target), "")

\* a call on self.bundle_variable that renames or re-roots a variable
VariableOp(op, from, to) == [op |-> op, from |-> from, to |-> to]

\* what the handling of a statement adds: records on the module's own
\* BundleReference, records on the BundleReference of other modules (as
\* <<module, record>>) and variable operations
Delta(own, other, ops) == [own |-> own, other |-> other, ops |-> ops]

NoDelta == Delta({}, {}, {})

Plus(d, e) == Delta(d.own \cup e.own, d.other \cup e.other, d.ops \cup e.ops)

\* ModuleSystem::merge
MergeModuleSystem(a, b) == IF a = b THEN a ELSE "Hybrid"

\* ModuleAnalyzerManager::is_same_bundle: both modules are analyzed and in
\* the same resource pot
ManagerIsSameBundle(analyzers, m, n) ==
  /\ m \in DOMAIN analyzers
  /\ n \in DOMAIN analyzers
  /\ analyzers[m].resource_pot_id = analyzers[n].resource_pot_id

\* BundleVariable::is_same_bundle_by_root, after the root of the variable was
\* set to a variable of target: the module of the root is in resource_pot_id
IsSameBundleByRoot(analyzers, target, resource_pot_id) ==
  /\ target \in DOMAIN analyzers
  /\ analyzers[target].resource_pot_id = resource_pot_id

\* FindModuleExportResult, and None when the name is not found
Found(variant, index, target) == <<[variant |-> variant, index |-> index, target |-> target]>>

\* BundleVariable::find_ident_by_index: the name is not found, or it is in a
\* module outside the build (External), or in a module of the build, which
\* the resolution reports as Local when that module is in the resource pot
\* of the consumer and as Bundle when it was reached across bundles
FindIdentResults(analyzers, index, source, resource_pot_id) ==
  {None} \cup
    (IF source \notin DOMAIN analyzers
     THEN {Found("External", index, source)}
     ELSE {Found("Bundle", index, source)} \cup
            (IF analyzers[source].resource_pot_id = resource_pot_id
             THEN {Found("Local", index, source)}
             ELSE {}))

\* a plausible slip of lines 356-373: the cross-bundle import of the
\* namespace is recorded without the export on the target
NamespaceImportWithoutExport(analyzers, module_id, specify, found) ==
  LET ns == specify.local
      module_system == analyzers[module_id].module_system
      resource_pot_id == analyzers[module_id].resource_pot_id
      target_id == found[1].target
      namespace == NamespaceName(target_id)
      is_same_bundle == IsSameBundleByRoot(analyzers, target_id, resource_pot_id)
  IN IF is_same_bundle
     THEN Delta({}, {}, {VariableOp("set_var_root", ns, namespace),
                         VariableOp("set_rename_from_other_render_name", ns, namespace)})
     ELSE Delta({AddImport("Named", namespace, "", target_id)}, {},
                {VariableOp("set_var_root", ns, namespace),
                 VariableOp("set_rename_from_other_render_name", ns, namespace)})

\* lines 340-376: import * as ns, resolved to a module reached across bundles
NamespaceImportOfBundle(analyzers, module_id, specify, found) ==
  LET ns == specify.local
      module_system == analyzers[module_id].module_system
      resource_pot_id == analyzers[module_id].resource_pot_id
      target_id == found[1].target
      namespace == NamespaceName(target_id)
      is_same_bundle == IsSameBundleByRoot(analyzers, target_id, resource_pot_id)
      \* add_import returns the index the imported binding has in the consumer
      import_rename == namespace
  IN IF is_same_bundle
     THEN Delta({}, {}, {VariableOp("set_var_root", ns, namespace),
                         VariableOp("set_rename_from_other_render_name", ns, namespace)})
     ELSE Delta({AddImport("Named", namespace, "", target_id)},
                {<<target_id, AddLocalExport("Named", namespace, "", module_system)>>},
                {VariableOp("set_var_root", ns, namespace),
                 VariableOp("set_rename_from_other_render_name", ns, import_rename)})

\* lines 284-379: import * as ns from source
NamespaceImport(analyzers, module_id, source, specify, found) ==
  IF found = None THEN NoDelta
  ELSE LET ns == specify.local
           target == found[1].target
           is_common_js == ManagerIsCommonjs(analyzers, target)
       IN CASE found[1].variant = "Local" ->
                 Delta(IF is_common_js
                       THEN {AddDeclareCommonjsImport("Namespace", NamespaceName(target), "",
                                                      target)}
                       ELSE {},
                       {},
                       {VariableOp("set_rename_from_other_render_name", ns,
                                   NamespaceName(target))})
            [] found[1].variant = "External" ->
                 Delta({AddImport("Namespace", ns, "", source)}, {},
                       {VariableOp("set_rename_from_other_name", ns, NamespaceName(source))})
            [] OTHER -> NamespaceImportOfBundle(analyzers, module_id, specify, found)

\* lines 382-490: import { imported as local } from source
NamedImport(analyzers, module_id, source, specify, found) ==
  LET local == specify.local
      imported == IF specify.imported = "" THEN local ELSE specify.imported
      root == {VariableOp("set_var_root", local, imported)}
  IN IF found = None THEN Delta({}, {}, root)
     ELSE LET target == found[1].target
              index == found[1].index
              is_common_js == ManagerIsCommonjs(analyzers, target)
              resource_pot_id == analyzers[module_id].resource_pot_id
          IN CASE found[1].variant = "Local" ->
                    Delta(IF is_common_js
                          THEN {AddDeclareCommonjsImport("Named", local, specify.imported,
                                                         target)}
                          ELSE {},
                          {},
                          root \cup {VariableOp("set_uniq_name_both", index, local)})
               [] found[1].variant = "External" ->
                    Delta({AddImport("Named", local, specify.imported, target)}, {},
                          root \cup {VariableOp("set_uniq_name_both", local, local)})
               [] OTHER ->
                    LET is_same_bundle ==
                          IF is_common_js
                          THEN ManagerIsSameBundle(analyzers, module_id, target)
                          ELSE IsSameBundleByRoot(analyzers, target, resource_pot_id)
                    IN Delta((IF is_same_bundle THEN {}
                              ELSE IF is_common_js
                              THEN {AddImport("Named", CommonjsName(target), "", target)}
                              ELSE {AddImport("Named", index, "", target)})
                             \cup
                             (IF is_common_js
                              THEN {AddDeclareCommonjsImport("Named", local, "", target)}
                              ELSE {}),
                             {},
                             root
                               \cup (IF is_common_js THEN {}
                                     ELSE {VariableOp("set_var_root", local, index)})
                               \cup {VariableOp("set_uniq_name_for_cross_bundle", index, local)})

\* lines 493-599: import default_ from source
DefaultImport(analyzers, module_id, source, specify, found) ==
  IF found = None THEN NoDelta
  ELSE LET default == specify.local
           target == found[1].target
           index == found[1].index
           is_common_js == ManagerIsCommonjs(analyzers, target)
           resource_pot_id == analyzers[module_id].resource_pot_id
       IN CASE found[1].variant = "Local" ->
                 Delta(IF is_common_js
                       THEN {AddDeclareCommonjsImport("Default", default, "", target)}
                       ELSE {},
                       {},
                       {VariableOp("set_uniq_name_both", index, default)})
            [] found[1].variant = "External" ->
                 Delta({AddImport("Default", default, "", target)}, {},
                       {VariableOp("set_uniq_name_both", default, default)})
            [] OTHER ->
                 LET name == IF is_common_js THEN CommonjsName(target)
                             ELSE IF VariableName(index) = "default" THEN DefaultName(target)
                             ELSE index
                     is_same_bundle ==
                       IF is_common_js
                       THEN ManagerIsSameBundle(analyzers, module_id, target)
                       ELSE IsSameBundleByRoot(analyzers, target, resource_pot_id)
                 IN Delta((IF is_same_bundle THEN {}
                           ELSE IF is_common_js
                           THEN {AddImport("Named", CommonjsName(target), "", target)}
                           ELSE {AddImport("Default", default, "", target)})
                          \cup
                          (IF is_common_js
                           THEN {AddDeclareCommonjsImport("Default", default, "", target)}
                           ELSE {}),
                          {},
                          (IF is_common_js THEN {}
                           ELSE {VariableOp("set_var_root", default, name)})
                            \cup
                            (IF is_common_js
                             THEN {VariableOp("set_var_uniq_rename", default, default)}
                             ELSE {VariableOp("set_uniq_name_for_cross_bundle", name, default)}))

\* lines 264-602: an import statement
ImportDelta(analyzers, module_id, import, founds) ==
  IF import.specifiers = <<>>
  THEN IF ManagerIsSameBundle(analyzers, module_id, import.source) THEN NoDelta
       ELSE IF ManagerIsCommonjs(analyzers, import.source)
       THEN Delta({ExecuteModuleForCjs(import.source)}, {}, {})
       ELSE Delta({AddExecuteModule(import.source)}, {}, {})
  ELSE LET of(i) ==
             LET specify == import.specifiers[i]
             IN CASE specify.kind = "Namespace" ->
                       NamespaceImport(analyzers, module_id, import.source, specify, founds[i])
                  [] specify.kind = "Named" ->
                       NamedImport(analyzers, module_id, import.source, specify, founds[i])
                  [] OTHER ->
                       DefaultImport(analyzers, module_id, import.source, specify, founds[i])
           RECURSIVE Sum(_)
           Sum(i) == IF i > Len(import.specifiers) THEN NoDelta ELSE Plus(of(i), Sum(i + 1))
       IN Sum(1)

\* BundleVariable::is_default_key: the variable is the default export
IsDefaultKey(index) == VariableName(index) = "default"

\* target.module_system().unwrap_or(module_system): the module system of the
\* module the name was found in, the consumer's own when there is none
MergedSystem(analyzers, module_id, target) ==
  MergeModuleSystem(analyzers[module_id].module_system,
                    IF target \in DOMAIN analyzers THEN analyzers[target].module_system
                    ELSE analyzers[module_id].module_system)

\* lines 644-756: export { local as export_as } from source
NamedReexport(analyzers, module_id, source, specify, found, referenced) ==
  IF found = None THEN NoDelta
  ELSE LET local == specify.local
           export_as == IF specify.as = "" THEN local ELSE specify.as
           target == found[1].target
           index == found[1].index
           is_common_js == ManagerIsCommonjs(analyzers, target)
           module_system == MergedSystem(analyzers, module_id, target)
           resource_pot_id == analyzers[module_id].resource_pot_id
       IN CASE found[1].variant = "Local" ->
                 LET name == IF IsDefaultKey(index) THEN DefaultName(target) ELSE index
                 IN Delta((IF is_common_js
                           THEN {IF IsDefaultKey(index)
                                 THEN AddDeclareCommonjsImport("Named", name, index, target)
                                 ELSE AddDeclareCommonjsImport("Named", index, "", target)}
                           ELSE {})
                          \cup
                          (IF referenced
                           THEN {AddLocalExport("Named", name, export_as, module_system)}
                           ELSE {}),
                          {},
                          IF is_common_js
                          THEN {VariableOp("set_var_uniq_rename", index, index)} ELSE {})
            [] found[1].variant = "External" ->
                 Delta(IF referenced
                       THEN {AddReferenceExport("Named", local, specify.as, target,
                                                module_system)}
                       ELSE {AddEmptyImport(target)},
                       {}, {})
            [] OTHER ->
                 LET is_same_bundle ==
                       IF is_common_js
                       THEN ManagerIsSameBundle(analyzers, module_id, target)
                       ELSE IsSameBundleByRoot(analyzers, target, resource_pot_id)
                 IN Delta((IF is_same_bundle THEN {}
                           ELSE {AddImport("Named", index, "", target)})
                          \cup {AddLocalExport("Named", local, "", module_system)},
                          {},
                          IF is_common_js THEN {}
                          ELSE {VariableOp("set_var_root", local, index)})

\* lines 756-787: export { local as export_as }
NamedExport(analyzers, module_id, specify, referenced) ==
  LET local == specify.local
      export_as == IF specify.as = "" THEN local ELSE specify.as
      module_system == analyzers[module_id].module_system
  IN Delta(IF ~referenced THEN {}
           ELSE (IF ManagerIsCommonjs(analyzers, module_id)
                 THEN {AddDeclareCommonjsImport(
                         "Named",
                         IF IsDefaultKey(local) THEN DefaultName(module_id) ELSE local,
                         export_as, module_id)}
                 ELSE {})
                \cup {AddLocalExport("Named", local, specify.as, module_system)},
           {},
           {VariableOp("set_var_uniq_rename", local, local)})

\* a plausible slip of lines 819-826: the test of is_entry is inverted
DefaultExportEntryInverted(analyzers, module_id, specify, referenced) ==
  LET var == specify.local
      module_system == analyzers[module_id].module_system
      default_name == DefaultName(module_id)
  IN Delta(IF ~referenced THEN {}
           ELSE (IF ManagerIsCommonjs(analyzers, module_id)
                 THEN {AddDeclareCommonjsImport("Default", default_name, "", module_id)}
                 ELSE {})
                \cup
                (IF ~analyzers[module_id].entry
                 THEN {AddLocalExport("Default", var, "", module_system)}
                 ELSE {AddLocalExport("Named", var, "", module_system)}),
           {},
           IF VariableName(var) = "default"
           THEN {VariableOp("set_var_root", var, default_name),
                 VariableOp("set_rename", var, default_name)}
           ELSE {VariableOp("set_var_uniq_rename", var, var)})

\* lines 792-828: export default
DefaultExport(analyzers, module_id, specify, referenced) ==
  LET var == specify.local
      module_system == analyzers[module_id].module_system
      default_name == DefaultName(module_id)
  IN Delta(IF ~referenced THEN {}
           ELSE (IF ManagerIsCommonjs(analyzers, module_id)
                 THEN {AddDeclareCommonjsImport("Default", default_name, "", module_id)}
                 ELSE {})
                \cup
                (IF analyzers[module_id].entry
                 THEN {AddLocalExport("Default", var, "", module_system)}
                 ELSE {AddLocalExport("Named", var, "", module_system)}),
           {},
           IF VariableName(var) = "default"
           THEN {VariableOp("set_var_root", var, default_name),
                 VariableOp("set_rename", var, default_name)}
           ELSE {VariableOp("set_var_uniq_rename", var, var)})

\* lines 831-985: export * as ns from source
NamespaceReexport(analyzers, module_id, source, specify, found, referenced, to_commonjs) ==
  IF found = None THEN NoDelta
  ELSE LET ns == specify.local
           local_var == NamespaceName(source)
           target == found[1].target
           module_system == MergedSystem(analyzers, module_id, target)
           resource_pot_id == analyzers[module_id].resource_pot_id
       IN CASE found[1].variant = "Local" ->
                 Delta((IF ManagerIsCommonjs(analyzers, source)
                        THEN {AddDeclareCommonjsImport("Namespace", local_var, "", source)}
                        ELSE {})
                       \cup
                       (IF referenced
                        THEN {AddLocalExport("Named", local_var, ns, module_system)}
                        ELSE {}),
                       {},
                       {VariableOp("set_rename", ns, local_var)})
            [] found[1].variant = "External" ->
                 Delta((IF to_commonjs THEN {AddImport("Namespace", ns, "", source)} ELSE {})
                       \cup
                       (IF referenced
                        THEN {AddReferenceExport("Namespace", ns, "", source, module_system)}
                        ELSE {})
                       \cup
                       (IF ~to_commonjs /\ ~referenced THEN {AddEmptyImport(target)} ELSE {}),
                       {},
                       {VariableOp("set_rename", ns, local_var)})
            [] OTHER ->
                 LET is_commonjs == ManagerIsCommonjs(analyzers, target)
                     is_same_bundle ==
                       IF is_commonjs
                       THEN ManagerIsSameBundle(analyzers, module_id, target)
                       ELSE IsSameBundleByRoot(analyzers, target, resource_pot_id)
                     name == IF is_commonjs THEN CommonjsName(target)
                             ELSE NamespaceName(target)
                 IN Delta((IF is_same_bundle THEN {}
                           ELSE {AddImport("Named", name, "", target)}
                                  \cup (IF is_commonjs
                                        THEN {AddDeclareCommonjsImport("Namespace", ns, "",
                                                                       target)}
                                        ELSE {}))
                          \cup {AddLocalExport("Named", ns, "", module_system)},
                          IF ~is_same_bundle /\ referenced
                          THEN {<<target, AddLocalExport("Named", name, "", module_system)>>}
                          ELSE {},
                          IF is_commonjs THEN {}
                          ELSE {VariableOp("set_var_root", ns, NamespaceName(target))})

\* lines 604-988: an export statement
ExportDelta(analyzers, module_id, export, founds, referenced, to_commonjs) ==
  IF ManagerIsCommonjs(analyzers, module_id) /\ ~referenced THEN NoDelta
  ELSE LET module_system == analyzers[module_id].module_system
           dynamic ==
             Delta(IF analyzers[module_id].is_dynamic /\ referenced
                   THEN {AddLocalExport("Named", NamespaceName(module_id), "", module_system)}
                   ELSE {},
                   {}, {})
           of(i) ==
             LET specify == export.specifiers[i]
             IN CASE specify.kind = "All" ->
                       Delta({AddReexportAll(export.source[1], module_system)}, {}, {})
                  [] specify.kind = "Named" /\ export.source # None ->
                       NamedReexport(analyzers, module_id, export.source[1], specify,
                                     founds[i], referenced)
                  [] specify.kind = "Named" /\ export.source = None ->
                       NamedExport(analyzers, module_id, specify, referenced)
                  [] specify.kind = "Default" ->
                       DefaultExport(analyzers, module_id, specify, referenced)
                  [] OTHER ->
                       NamespaceReexport(analyzers, module_id, export.source[1], specify,
                                         founds[i], referenced, to_commonjs)
           RECURSIVE Sum(_)
           Sum(i) == IF i > Len(export.specifiers) THEN NoDelta ELSE Plus(of(i), Sum(i + 1))
       IN Plus(dynamic, Sum(1))

\* lines 991-1006: a CommonJS module without export statement
CommonjsWithoutExport(analyzers, module_id, contains_export, referenced) ==
  IF contains_export \/ ~ManagerIsCommonjs(analyzers, module_id) THEN NoDelta
  ELSE IF analyzers[module_id].entry
  THEN Delta({ExecuteModuleForCjs(module_id)}, {}, {})
  ELSE IF referenced
  THEN Delta({AddLocalExport("Named", CommonjsName(module_id), "", "CommonJs")}, {}, {})
  ELSE NoDelta

\* the records of the bundle references after a delta of module_id
Apply(references, module_id, delta) ==
  [m \in DOMAIN references |->
     references[m]
       \cup (IF m = module_id THEN delta.own ELSE {})
       \cup {o[2] : o \in {x \in delta.other : x[1] = m}}]

\* the import descriptors of a statement of a linked module
LinkImportShapes ==
  {[source |-> src, specifiers |-> sp] :
     src \in {<<98>>, ExternalModule},
     sp \in {<<>>,
             <<[kind |-> "Namespace", local |-> "A", imported |-> ""]>>,
             <<[kind |-> "Named", local |-> "x", imported |-> ""]>>,
             <<[kind |-> "Default", local |-> "d", imported |-> ""]>>}}

\* the export descriptors of a statement of a linked module
LinkExportShapes ==
  {[source |-> Some(src), specifiers |-> <<[kind |-> k, local |-> l, as |-> ""]>>] :
     src \in {<<98>>, ExternalModule},
     k \in {"All", "Named", "Namespace"}, l \in {"x"}}
    \cup
  {[source |-> None, specifiers |-> <<[kind |-> "Named", local |-> "x", as |-> ""]>>]}
    \cup
  {[source |-> None, specifiers |-> <<[kind |-> "Default", local |-> l, as |-> ""]>>] :
     l \in {"n", "default"}}

LinkStatementShapes ==
  {[import |-> None, export |-> None]}
    \cup {[import |-> Some(i), export |-> None] : i \in LinkImportShapes}
    \cup {[import |-> None, export |-> Some(e)] : e \in LinkExportShapes}

\* the calls of link_module_relation: module "a" of resource pot "P" is
\* linked; "b" is a module of the build, in "P" or in another pot "Q",
\* that may import "a"
LinkInit ==
  /\ ordered_modules = <<(<<97>>)>>
  /\ link_module_id = <<97>>
  /\ \E system \in ModuleSystems, entry \in BOOLEAN, is_dynamic \in BOOLEAN,
        shapes \in SeqsUpTo(LinkStatementShapes, MaxLinkStatements),
        b_system \in {"EsModule", "CommonJs"}, b_pot \in {"P", "Q"} :
       module_analyzers =
         [m \in AnalyzedModules |->
            IF m = <<97>>
            THEN [module_system |-> system, entry |-> entry, is_dynamic |-> is_dynamic,
                  resource_pot_id |-> "P", statements |-> Statements(shapes)]
            ELSE [module_system |-> b_system, entry |-> FALSE, is_dynamic |-> FALSE,
                  resource_pot_id |-> b_pot, statements |-> <<>>]]
  /\ importers \in SUBSET {<<98>>}
  /\ namespace_modules \in SUBSET {<<97>>}
  /\ is_format_to_commonjs \in BOOLEAN
  /\ bundle_references = [m \in AnalyzedModules |-> {}]
  /\ variable_ops = {}
  /\ is_contain_export = FALSE
  /\ is_reference_by_another = FALSE
  /\ find_results = <<>>
  /\ bapc = "link"
  /\ ba_index = 1
  /\ statement_actions = <<>>
  /\ earlier_actions = <<>>

linkInputs == <<ordered_modules, module_analyzers, link_module_id, importers,
                namespace_modules, is_format_to_commonjs, stripVars, patchVars,
                codegenVars>>

\* lines 224-262: the locals, and the namespace export of a module that is
\* imported as a namespace
LinkBegin ==
  /\ bapc = "link"
  /\ LET module_id == link_module_id
         module_analyzer == module_analyzers[module_id]
     IN /\ is_reference_by_another' =
             (\/ module_analyzer.entry
              \/ \E importer \in importers :
                   /\ importer \in DOMAIN module_analyzers
                   /\ module_analyzers[importer].resource_pot_id
                        # module_analyzer.resource_pot_id)
        /\ bundle_references' =
             IF module_id \in namespace_modules /\ ~ManagerIsCommonjs(module_analyzers, module_id)
             THEN Apply(bundle_references, module_id,
                        Delta({AddLocalExport("Namespace", NamespaceName(module_id), "",
                                              module_analyzer.module_system)}, {}, {}))
             ELSE bundle_references
  /\ is_contain_export' = FALSE
  /\ ba_index' = 1
  /\ bapc' = "link_statements"
  /\ UNCHANGED <<linkInputs, variable_ops, find_results>>
  /\ UNCHANGED outsideBa

\* lines 263-989: one round of the loop over the statements
LinkStatement ==
  /\ bapc = "link_statements"
  /\ ba_index <= Len(module_analyzers[link_module_id].statements)
  /\ LET module_id == link_module_id
         statement == module_analyzers[module_id].statements[ba_index]
         resource_pot_id == module_analyzers[module_id].resource_pot_id
         specifiers == IF statement.import # None THEN statement.import[1].specifiers
                       ELSE IF statement.export # None THEN statement.export[1].specifiers
                       ELSE <<>>
         source == IF statement.import # None THEN statement.import[1].source
                   ELSE IF statement.export # None /\ statement.export[1].source # None
                   THEN statement.export[1].source[1]
                   ELSE module_id
     IN \E founds \in [1..Len(specifiers) ->
                         FindIdentResults(module_analyzers, "x", source, resource_pot_id)] :
          LET resolved == [i \in 1..Len(specifiers) |->
                             IF founds[i] = None THEN None
                             ELSE Found(founds[i][1].variant, specifiers[i].local,
                                        founds[i][1].target)]
              delta ==
                Plus(IF statement.import # None
                     THEN ImportDelta(module_analyzers, module_id, statement.import[1], resolved)
                     ELSE NoDelta,
                     IF statement.export # None
                     THEN ExportDelta(module_analyzers, module_id, statement.export[1],
                                      resolved, is_reference_by_another, is_format_to_commonjs)
                     ELSE NoDelta)
          IN /\ bundle_references' = Apply(bundle_references, module_id, delta)
             /\ variable_ops' = variable_ops \cup delta.ops
             /\ is_contain_export' = (is_contain_export \/ statement.export # None)
             /\ find_results' = Append(find_results, resolved)
  /\ ba_index' = ba_index + 1
  /\ UNCHANGED <<linkInputs, bapc, is_reference_by_another>>
  /\ UNCHANGED outsideBa

\* lines 991-1009: the CommonJS module without export statement, and Ok(())
LinkEnd ==
  /\ bapc = "link_statements"
  /\ ba_index > Len(module_analyzers[link_module_id].statements)
  /\ bundle_references' =
       Apply(bundle_references, link_module_id,
             CommonjsWithoutExport(module_analyzers, link_module_id, is_contain_export,
                                   is_reference_by_another))
  /\ bapc' = "linked"
  /\ UNCHANGED <<linkInputs, ba_index, variable_ops, is_contain_export,
                 is_reference_by_another, find_results>>
  /\ UNCHANGED outsideBa

LinkNext ==
  \/ LinkBegin
  \/ LinkStatement
  \/ LinkEnd

\* a call of link_module_relation
LinkStart == LinkInit /\ PatchIdle /\ CodegenIdle /\ HoistIdle /\ RegenIdle /\ UpdIdle /\ RtIdle

SpecLink == LinkStart /\ [][LinkNext]_vars

\* link_module_relation returned
Linked == bapc = "linked"

\* some importer of the linked module is a module of another bundle
ImportedByAnotherBundle ==
  \E importer \in importers :
    /\ importer \in DOMAIN module_analyzers
    /\ module_analyzers[importer].resource_pot_id
         # module_analyzers[link_module_id].resource_pot_id

\* the linked module has an export statement
HasExportStatement ==
  \E i \in DOMAIN module_analyzers[link_module_id].statements :
    module_analyzers[link_module_id].statements[i].export # None

\* C15: a CommonJS module without export statement that is imported by a
\* module of another bundle has, after link_module_relation, a local named
\* export of its CommonJS index under module system CommonJs on its own
\* BundleReference, whether or not it is an entry
C15_CommonjsIndexExported ==
  (/\ Linked
   /\ ManagerIsCommonjs(module_analyzers, link_module_id)
   /\ ~HasExportStatement
   /\ ImportedByAnotherBundle)
    => AddLocalExport("Named", CommonjsName(link_module_id), "", "CommonJs")
         \in bundle_references[link_module_id]

\* the `export default` statements of the linked module: the variables
DefaultExports ==
  {module_analyzers[link_module_id].statements[i].export[1].specifiers[1].local :
     i \in {j \in DOMAIN module_analyzers[link_module_id].statements :
              /\ module_analyzers[link_module_id].statements[j].export # None
              /\ module_analyzers[link_module_id].statements[j].export[1].specifiers[1].kind
                   = "Default"}}

\* the export of var is recorded as a named local export
NamedLocalExport(var) ==
  AddLocalExport("Named", var, "", module_analyzers[link_module_id].module_system)
    \in bundle_references[link_module_id]

\* the export of var is recorded as a Default local export
DefaultLocalExport(var) ==
  AddLocalExport("Default", var, "", module_analyzers[link_module_id].module_system)
    \in bundle_references[link_module_id]

\* the variable of the export was renamed by the export default arm
DefaultRenamed(var) ==
  IF VariableName(var) = "default"
  THEN VariableOp("set_var_root", var, DefaultName(link_module_id)) \in variable_ops
  ELSE VariableOp("set_var_uniq_rename", var, var) \in variable_ops

\* C16 as stated: an `export default` of a module that is not an entry and
\* has no importer in another bundle is renamed and recorded as a named local
\* export; a Default local export is recorded only for entry modules
C16_DowngradedWhenOnlyOwnBundle ==
  Linked =>
    \A var \in DefaultExports :
      /\ (~module_analyzers[link_module_id].entry /\ ~ImportedByAnotherBundle)
           => DefaultRenamed(var) /\ NamedLocalExport(var)
      /\ DefaultLocalExport(var) => module_analyzers[link_module_id].entry

\* C16 amended: an `export default` of a module that is not CommonJS, or
\* that is an entry or imported from another bundle, is renamed (through the
\* default slot when the variable is named "default"); the named local
\* export is recorded exactly when the module is not an entry and is
\* imported from another bundle, the Default local export exactly when it is
\* an entry, and nothing is recorded for a module that is neither
C16_NamedExportWhenImportedFromAnotherBundle ==
  Linked =>
    \A var \in DefaultExports :
      /\ (~ManagerIsCommonjs(module_analyzers, link_module_id)
            \/ module_analyzers[link_module_id].entry \/ ImportedByAnotherBundle)
           => DefaultRenamed(var)
      /\ NamedLocalExport(var)
           <=> (~module_analyzers[link_module_id].entry /\ ImportedByAnotherBundle)
      /\ DefaultLocalExport(var) <=> module_analyzers[link_module_id].entry

\* an `export default` was linked in a module that is neither an entry nor
\* imported from another bundle: renamed, and no local export recorded
C16_Witness ==
  /\ Linked
  /\ "default" \in DefaultExports
  /\ ~module_analyzers[link_module_id].entry
  /\ ~ImportedByAnotherBundle
  /\ importers # {}
  /\ DefaultRenamed("default")
  /\ bundle_references[link_module_id] = {}

\* the statements handled whose `import * as A from src` resolved to a module
\* of the build reached across bundles: <<A, target>>
NamespaceImportsOfBundle ==
  {<<module_analyzers[link_module_id].statements[i].import[1].specifiers[1].local,
     find_results[i][1][1].target>> :
     i \in {j \in DOMAIN find_results :
              /\ module_analyzers[link_module_id].statements[j].import # None
              /\ Len(module_analyzers[link_module_id].statements[j].import[1].specifiers) = 1
              /\ module_analyzers[link_module_id].statements[j].import[1].specifiers[1].kind
                   = "Namespace"
              /\ find_results[j][1] # None
              /\ find_results[j][1][1].variant = "Bundle"}}

\* C17: for `import * as A from src` resolved to a module of another bundle,
\* the target's BundleReference has a named local export of the target's
\* namespace index, the consumer's has a named import of it, and A is
\* aliased to the imported name; for a target of the same bundle no import
\* and no export is recorded
C17_NamespaceAcrossBundles ==
  \A use \in NamespaceImportsOfBundle :
    LET A == use[1]
        target == use[2]
        namespace == NamespaceName(target)
        own == module_analyzers[link_module_id]
    IN IF module_analyzers[target].resource_pot_id # own.resource_pot_id
       THEN /\ AddLocalExport("Named", namespace, "", own.module_system)
                 \in bundle_references[target]
            /\ AddImport("Named", namespace, "", target) \in bundle_references[link_module_id]
            /\ VariableOp("set_rename_from_other_render_name", A, namespace) \in variable_ops
       ELSE /\ ~\E r \in bundle_references[link_module_id] :
                   r.op = "add_import" /\ r.target = Some(target)
            /\ bundle_references[target] = {}
            /\ VariableOp("set_rename_from_other_render_name", A, namespace) \in variable_ops

\* a namespace import of a module of another bundle was linked
C17_Witness ==
  /\ Linked
  /\ \E use \in NamespaceImportsOfBundle :
       /\ module_analyzers[use[2]].resource_pot_id
            # module_analyzers[link_module_id].resource_pot_id
       /\ bundle_references[use[2]] # {}

(***************************************************************************)
(* BundleAnalyzer::patch_ast (bundle_analyzer.rs, lines 1174-1369).        *)
(* A ModuleItem of an AST is <<kind, target, specifiers>>: the body the    *)
(* module has when patch_ast reaches it ("body"), the declarations that    *)
(* call the wrapper of a CommonJS target and destructure the specifiers    *)
(* ("commonjs"), a synthesized import ("import") or export ("export").     *)
(***************************************************************************)
\* the modules a bundle may hold: "a", "b", "c", ...
PatchModules == {<<96 + i>> : i \in 1..MaxPatchModules}

\* the CommonJS modules: the targets redeclare_commonjs_import may name
CommonjsTargets == {<<97>>, <<98>>}

\* the existing body of a module, as one block
Body(module_id) == <<"body", module_id, {}>>

\* CjsModuleAnalyzer::redeclare_commonjs_export: one declaration block per
\* target of the map, in the order the HashMap is iterated
RedeclareCommonjsExport(import_map) ==
  {[i \in 1..Len(order) |-> <<"commonjs", order[i], import_map[order[i]]>>] :
     order \in IterationOrders(DOMAIN import_map)}

\* generate_export_by_reference_export: the export statements of a
\* BundleReference, none when it has no export
GenerateExportByReferenceExport(should_reexport_raw, bundle_reference) ==
  IF bundle_reference.export = {} THEN <<>>
  ELSE <<(<<"export", IF should_reexport_raw THEN <<1>> ELSE <<0>>, bundle_reference.export>>)>>

\* generate_bundle_import_by_bundle_reference: the import statements of a
\* BundleReference, none when its import_map is empty
GenerateBundleImportByBundleReference(bundle_reference) ==
  IF bundle_reference.import_map = {} THEN <<>>
  ELSE <<(<<"import", <<>>, bundle_reference.import_map>>)>>

\* BundleReference::new()
NewBundleReference == [export |-> {}, import_map |-> {}]

\* a plausible slip of lines 1214-1216: insert(index) instead of
\* entry(..).or_insert(index)
LastIndex(first_index, reference_kind, index) == index

\* lines 1214-1216: reference_first_index.entry(reference_kind).or_insert(index)
FirstIndex(first_index, reference_kind, index) ==
  IF reference_kind \in DOMAIN first_index THEN first_index[reference_kind] ELSE index

\* lines 1213-1216 for every entry of redeclare: reference_first_index afterwards
FirstIndexes(first_index, redeclare, index) ==
  [reference_kind \in DOMAIN first_index \cup DOMAIN redeclare |->
     IF reference_kind \in DOMAIN redeclare
     THEN FirstIndex(first_index, reference_kind, index)
     ELSE first_index[reference_kind]]

\* lines 1217-1227 for every entry of redeclare: commonjs_module_index
\* afterwards, the specifiers of a target extended where it has an entry
MergeCommonjsImports(module_index, first_index, redeclare, index) ==
  LET at(reference_kind) == FirstIndex(first_index, reference_kind, index)
      old(i) == IF i \in DOMAIN module_index THEN module_index[i] ELSE EmptyMap
      added(i) == {reference_kind \in DOMAIN redeclare : at(reference_kind) = i}
  IN [i \in DOMAIN module_index \cup {at(reference_kind) : reference_kind \in DOMAIN redeclare} |->
        [reference_kind \in DOMAIN old(i) \cup added(i) |->
           (IF reference_kind \in DOMAIN old(i) THEN old(i)[reference_kind] ELSE {})
             \cup (IF reference_kind \in added(i) THEN redeclare[reference_kind] ELSE {})]]

\* a plausible slip of lines 1295-1296: every declaration before the body
CommonjsAllBefore(body, before_commonjs_redeclare, after_commonjs_redeclare) ==
  before_commonjs_redeclare \o after_commonjs_redeclare \o body

\* lines 1295-1296: [before_commonjs_redeclare, body, after_commonjs_redeclare].concat()
CommonjsAroundBody(body, before_commonjs_redeclare, after_commonjs_redeclare) ==
  before_commonjs_redeclare \o body \o after_commonjs_redeclare

\* a plausible slip of lines 1336-1349: the imports go to the last module
PatchImportAtLast(asts, order, imports) ==
  IF imports = <<>> \/ order = <<>> THEN asts
  ELSE [asts EXCEPT ![order[Len(order)]] = imports \o @]

\* lines 1336-1349: the imports are chained before the body of the first module
PatchImport(asts, order, imports) ==
  IF imports = <<>> \/ order = <<>> \/ order[1] \notin DOMAIN asts THEN asts
  ELSE [asts EXCEPT ![order[1]] = imports \o @]

\* lines 1351-1366: the exports are chained after the body of the last module
PatchExport(asts, order, exports) ==
  IF exports = <<>> \/ order = <<>> \/ order[Len(order)] \notin DOMAIN asts THEN asts
  ELSE [asts EXCEPT ![order[Len(order)]] = @ \o exports]

\* the shapes of the BundleReference of a module: nothing to export or
\* import, imports, exports of a module that is not an entry, exports of an
\* entry
ReferenceShapes ==
  {[export |-> FALSE, import |-> FALSE, entry |-> FALSE],
   [export |-> FALSE, import |-> TRUE, entry |-> FALSE],
   [export |-> TRUE, import |-> FALSE, entry |-> FALSE],
   [export |-> TRUE, import |-> FALSE, entry |-> TRUE]}

\* the orders of the modules of a bundle
PatchOrders ==
  UNION {IterationOrders(modules) : modules \in (SUBSET PatchModules) \ {{}}}

\* the variable a consumer binds to what it uses of a CommonJS target
Specifier(consumer, target) == <<consumer, target>>

\* the calls of patch_ast: every module of the bundle has an analyzer and a
\* BundleReference
PatchInit ==
  /\ ordered_modules \in PatchOrders
  /\ \E shapes \in [Range(ordered_modules) -> ReferenceShapes],
        mentions \in [Range(ordered_modules) -> SUBSET CommonjsTargets] :
       /\ module_analyzers = [m \in Range(ordered_modules) |-> [entry |-> shapes[m].entry]]
       /\ reference_export = [m \in Range(ordered_modules) |-> shapes[m].export]
       /\ reference_import = [m \in Range(ordered_modules) |-> shapes[m].import]
       /\ redeclare_commonjs_import =
            [m \in Range(ordered_modules) |->
               [target \in mentions[m] |-> {Specifier(m, target)}]]
  /\ module_ast = [m \in Range(ordered_modules) |-> <<Body(m)>>]
  /\ is_runtime_bundle \in BOOLEAN
  /\ reference_first_index = EmptyMap
  /\ commonjs_module_index = EmptyMap
  /\ total_bundle_reference = NewBundleReference
  /\ export_raw = NewBundleReference
  /\ patch_import_to_module = <<>>
  /\ patch_export_to_module = <<>>
  /\ bapc = "patch"
  /\ ba_index = 1
  /\ statement_actions = <<>>
  /\ earlier_actions = <<>>

patchInputs == <<ordered_modules, module_analyzers, redeclare_commonjs_import,
                 reference_export, reference_import, is_runtime_bundle, stripVars, linkVars,
                 codegenVars>>

\* lines 1198-1265: one round of the first loop over ordered_modules
PatchModule ==
  /\ bapc = "patch"
  /\ ba_index <= Len(ordered_modules)
  /\ LET index == ba_index
         module_id == ordered_modules[index]
         redeclare == redeclare_commonjs_import[module_id]
         is_entry == module_analyzers[module_id].entry
         export == IF reference_export[module_id] THEN {module_id} ELSE {}
         import == IF reference_import[module_id] THEN {module_id} ELSE {}
     IN /\ reference_first_index' = FirstIndexes(reference_first_index, redeclare, index)
        /\ commonjs_module_index' =
             MergeCommonjsImports(commonjs_module_index, reference_first_index, redeclare,
                                  index)
        /\ export_raw' =
             IF is_entry THEN [export_raw EXCEPT !.export = @ \cup export] ELSE export_raw
        /\ total_bundle_reference' =
             [export |-> total_bundle_reference.export
                           \cup (IF is_entry THEN {} ELSE export),
              import_map |-> total_bundle_reference.import_map \cup import]
  /\ ba_index' = ba_index + 1
  /\ UNCHANGED <<patchInputs, bapc, module_ast, patch_import_to_module,
                 patch_export_to_module>>
  /\ UNCHANGED outsideBa

\* lines 1202-1211: patch_module_analyzer_ast returns an error, which `?`
\* returns
PatchModuleError ==
  /\ bapc = "patch"
  /\ ba_index <= Len(ordered_modules)
  /\ bapc' = "patch_err"
  /\ UNCHANGED <<patchInputs, ba_index, module_ast, reference_first_index,
                 commonjs_module_index, total_bundle_reference, export_raw,
                 patch_import_to_module, patch_export_to_module>>
  /\ UNCHANGED outsideBa

\* line 1265: the first loop is over
PatchModulesDone ==
  /\ bapc = "patch"
  /\ ba_index > Len(ordered_modules)
  /\ bapc' = "patch_commonjs"
  /\ UNCHANGED <<patchInputs, ba_index, module_ast, reference_first_index,
                 commonjs_module_index, total_bundle_reference, export_raw,
                 patch_import_to_module, patch_export_to_module>>
  /\ UNCHANGED outsideBa

\* lines 1267-1297: one round of the loop that consumes commonjs_module_index,
\* in the order the HashMap is iterated
PatchCommonjs ==
  /\ bapc = "patch_commonjs"
  /\ \E index \in DOMAIN commonjs_module_index :
       LET module_id == ordered_modules[index]
           import_map == commonjs_module_index[index]
           current == [k \in DOMAIN import_map \cap {module_id} |-> import_map[k]]
           others == MapRemove(import_map, module_id)
       IN /\ \E after_commonjs_redeclare \in RedeclareCommonjsExport(current),
                before_commonjs_redeclare \in RedeclareCommonjsExport(others) :
               module_ast' =
                 [module_ast EXCEPT ![module_id] =
                    CommonjsAroundBody(@, before_commonjs_redeclare,
                                       after_commonjs_redeclare)]
          /\ commonjs_module_index' = MapRemove(commonjs_module_index, index)
  /\ UNCHANGED <<patchInputs, bapc, ba_index, reference_first_index,
                 total_bundle_reference, export_raw, patch_import_to_module,
                 patch_export_to_module>>
  /\ UNCHANGED outsideBa

\* lines 1299-1368: the exports and imports are generated and patched in
PatchImportsAndExports ==
  /\ bapc = "patch_commonjs"
  /\ DOMAIN commonjs_module_index = {}
  /\ patch_export_to_module' =
       IF is_runtime_bundle THEN <<>>
       ELSE GenerateExportByReferenceExport(FALSE, total_bundle_reference)
              \o GenerateExportByReferenceExport(TRUE, export_raw)
  /\ patch_import_to_module' = GenerateBundleImportByBundleReference(total_bundle_reference)
  /\ module_ast' =
       PatchExport(PatchImport(module_ast, ordered_modules, patch_import_to_module'),
                   ordered_modules, patch_export_to_module')
  /\ bapc' = "patched"
  /\ UNCHANGED <<patchInputs, ba_index, reference_first_index, commonjs_module_index,
                 total_bundle_reference, export_raw>>
  /\ UNCHANGED outsideBa

PatchNext ==
  \/ PatchModule
  \/ PatchModuleError
  \/ PatchModulesDone
  \/ PatchCommonjs
  \/ PatchImportsAndExports

\* a call of patch_ast
PatchStart == PatchInit /\ LinkIdle /\ CodegenIdle /\ HoistIdle /\ RegenIdle /\ UpdIdle /\ RtIdle

SpecPatch == PatchStart /\ [][PatchNext]_vars

\* patch_ast returned Ok(())
Patched == bapc = "patched"

\* the positions in ordered_modules of the modules whose BundleReference
\* mentions target in redeclare_commonjs_import
Mentions(target) ==
  {i \in 1..Len(ordered_modules) :
     target \in DOMAIN redeclare_commonjs_import[ordered_modules[i]]}

\* the first module of ordered_modules that mentions target
FirstConsumer(target) ==
  ordered_modules[CHOOSE i \in Mentions(target) : \A j \in Mentions(target) : i <= j]

\* the positions in the AST of module_id of the wrapper-call declarations of
\* target
DeclarationsOf(module_id, target) ==
  {p \in DOMAIN module_ast[module_id] :
     /\ module_ast[module_id][p][1] = "commonjs"
     /\ module_ast[module_id][p][2] = target}

\* the position of the existing body in the AST of module_id
BodyAt(module_id) ==
  CHOOSE p \in DOMAIN module_ast[module_id] : module_ast[module_id][p] = Body(module_id)

\* C18: after patch_ast the declarations of every target some module
\* mentions are in exactly one module, the first of ordered_modules that
\* mentions it: one declaration there, with the specifiers of all consumers,
\* and none in any other module
C18_DeclaredOnceAtFirstConsumer ==
  Patched =>
    \A target \in CommonjsTargets :
      \A module_id \in Range(ordered_modules) :
        IF Mentions(target) # {} /\ module_id = FirstConsumer(target)
        THEN /\ Cardinality(DeclarationsOf(module_id, target)) = 1
             /\ \A p \in DeclarationsOf(module_id, target) :
                  module_ast[module_id][p][3] =
                    UNION {redeclare_commonjs_import[ordered_modules[i]][target] :
                             i \in Mentions(target)}
        ELSE DeclarationsOf(module_id, target) = {}

\* a target two modules mention was declared in the first of them, with the
\* specifiers of both
C18_Witness ==
  /\ Patched
  /\ \E target \in CommonjsTargets :
       /\ Cardinality(Mentions(target)) >= 2
       /\ target # FirstConsumer(target)
       /\ \E p \in DeclarationsOf(FirstConsumer(target), target) :
            Cardinality(module_ast[FirstConsumer(target)][p][3]) >= 2

\* the declaration at position p of module_id comes immediately before the
\* existing body: only wrapper-call declarations are between it and the body
ImmediatelyBeforeBody(module_id, p) ==
  /\ p < BodyAt(module_id)
  /\ \A q \in p..(BodyAt(module_id) - 1) : module_ast[module_id][q][1] = "commonjs"

\* C19 as stated: every wrapper-call declaration is immediately before the
\* existing body of the module it was emitted into, those of the module
\* itself included
C19_DeclarationsBeforeBody ==
  Patched =>
    \A module_id \in Range(ordered_modules) :
      \A target \in CommonjsTargets :
        \A p \in DeclarationsOf(module_id, target) : ImmediatelyBeforeBody(module_id, p)

\* C19 amended: the wrapper-call declarations of every target other than the
\* consumer module are immediately before its existing body; the declaration
\* of the consumer module itself is immediately after its existing body
C19_OwnDeclarationAfterBody ==
  Patched =>
    \A module_id \in Range(ordered_modules) :
      \A target \in CommonjsTargets :
        \A p \in DeclarationsOf(module_id, target) :
          IF target = module_id
          THEN p = BodyAt(module_id) + 1
          ELSE ImmediatelyBeforeBody(module_id, p)

\* a module is the first consumer of itself and of another target: one
\* declaration before its body and its own after it
C19_Witness ==
  /\ Patched
  /\ \E module_id \in Range(ordered_modules) :
       /\ DeclarationsOf(module_id, module_id) # {}
       /\ \E target \in CommonjsTargets \ {module_id} :
            DeclarationsOf(module_id, target) # {}

\* the items of kind in the ASTs of all modules, as <<module, position>>
ItemsOfKind(kind) ==
  {mp \in Range(ordered_modules) \X (1..(2 * MaxPatchModules + 4)) :
     /\ mp[2] \in DOMAIN module_ast[mp[1]]
     /\ module_ast[mp[1]][mp[2]][1] = kind}

PolyfillSlot == <<115>>

\* SimplePolyfill: the helpers a bundle may have collected
PolyfillNames == {"h1", "h2"}

\* SimplePolyfill::to_export: the names the polyfill publishes
ToExport(helpers) == Range(helpers)

\* SimplePolyfill::to_ast: the declarations of the helpers
ToAst(helpers) == [i \in 1..Len(helpers) |-> <<"polyfill", PolyfillSlot, {helpers[i]}>>]

\* the calls of patch_polyfill, on the analyzer of a bundle that may hold the
\* polyfill slot module; self.resource_pot is of type Runtime or not
PolyfillInit ==
  /\ ordered_modules \in {<<(<<97>>)>>, <<PolyfillSlot>>, <<(<<97>>), PolyfillSlot>>,
                          <<PolyfillSlot, (<<97>>)>>}
  /\ \E analyzed \in SUBSET {PolyfillSlot}, system \in ModuleSystems :
       module_analyzers =
         [m \in {<<97>>} \cup analyzed |->
            [module_system |-> system, resource_pot_id |-> "P"]]
  /\ module_ast = [m \in DOMAIN module_analyzers |-> <<Body(m)>>]
  /\ is_runtime_bundle \in BOOLEAN
  /\ polyfill \in {<<>>, <<"h1">>, <<"h1", "h2">>}
  /\ polyfill_index_map \in SUBSET PolyfillNames
  /\ bapc = "polyfill"
  /\ ba_index = 1
  /\ resource_pot_modules = <<>>
  /\ order_index_map = <<>>
  /\ target_env = ""
  /\ bundle = <<>>
  /\ redeclare_commonjs_import = <<>>
  /\ reference_export = <<>>
  /\ reference_import = <<>>
  /\ reference_first_index = <<>>
  /\ commonjs_module_index = <<>>
  /\ total_bundle_reference = <<>>
  /\ export_raw = <<>>
  /\ patch_import_to_module = <<>>
  /\ patch_export_to_module = <<>>
  /\ statement_actions = <<>>
  /\ earlier_actions = <<>>

\* lines 1419-1461: the helpers go before the body of the polyfill slot
\* module and the exports of their names after it; Err when the module has
\* no analyzer
PatchPolyfill ==
  /\ bapc = "polyfill"
  /\ IF PolyfillSlot \notin DOMAIN module_analyzers
     THEN /\ bapc' = "polyfill_err"
          /\ UNCHANGED module_ast
     ELSE LET exported == {name \in ToExport(polyfill) : name \in polyfill_index_map}
              bundle_reference == [export |-> exported, import_map |-> {}]
              stmts == GenerateExportByReferenceExport(FALSE, bundle_reference)
          IN /\ module_ast' =
                  [module_ast EXCEPT ![PolyfillSlot] = (ToAst(polyfill) \o @) \o stmts]
             /\ bapc' = "polyfilled"
  /\ UNCHANGED <<ordered_modules, module_analyzers, ba_index, is_runtime_bundle,
                 redeclare_commonjs_import, reference_export, reference_import,
                 reference_first_index, commonjs_module_index, total_bundle_reference,
                 export_raw, patch_import_to_module, patch_export_to_module,
                 stripVars, linkVars, codegenVars>>
  /\ UNCHANGED outsideBa

PolyfillNext == PatchPolyfill

\* a call of patch_polyfill
PolyfillStart == PolyfillInit /\ LinkIdle /\ HoistIdle /\ RegenIdle /\ UpdIdle /\ RtIdle

SpecPolyfill == PolyfillStart /\ [][PolyfillNext]_vars

PotModules == {<<96 + i>> : i \in 1..MaxPotModules} \cup {PolyfillSlot}

\* lines 103-109: the comparator handed to sort_by says Less
IsLess(a, b, index_map) ==
  /\ a \in DOMAIN index_map
  /\ b \in DOMAIN index_map
  /\ index_map[b] < index_map[a]

\* slice::sort_by of a short slice with the comparator of lines 103-109: each
\* element in turn is moved towards the front for as long as the comparator
\* says it is Less than the element before it
RECURSIVE SortByOrderIndex(_, _)
SortByOrderIndex(modules, index_map) ==
  IF Len(modules) <= 1 THEN modules
  ELSE LET n == Len(modules)
           sorted == SortByOrderIndex(SubSeq(modules, 1, n - 1), index_map)
           tail == modules[n]
           \* the elements of the sorted prefix the tail does not pass
           stays == {j \in 1..(n - 1) :
                       \E k \in j..(n - 1) : ~IsLess(tail, sorted[k], index_map)}
           at == Cardinality(stays)
       IN SubSeq(sorted, 1, at) \o <<tail>> \o SubSeq(sorted, at + 1, n - 1)

\* a piece of the text of the Bundle
Piece(kind, module_id, text) == [kind |-> kind, module |-> module_id, text |-> text]

\* Bundle::prepend
BundlePrepend(pieces, piece) == <<piece>> \o pieces

\* Bundle::append
BundleAppend(pieces, piece) == Append(pieces, piece)

\* lines 1581-1585: one prepend per item of polyfill.to_str()
RECURSIVE PrependPolyfill(_, _)
PrependPolyfill(pieces, helpers) ==
  IF helpers = <<>> THEN pieces
  ELSE PrependPolyfill(BundlePrepend(pieces, Piece("polyfill", <<>>, Head(helpers))),
                       Tail(helpers))

\* lines 1561-1585: the wrapper of a browser runtime bundle, then the
\* polyfill helpers
WrapAndInject(pieces, env, is_runtime, helpers, order) ==
  LET wrapped ==
        IF env = "Browser" /\ is_runtime
        THEN BundleAppend(BundlePrepend(pieces, Piece("text", <<>>, "((function(){")),
                          Piece("text", <<>>, "})());"))
        ELSE pieces
      injectable_resource_pot ==
        (env = "Library" /\ PolyfillSlot \in Range(order)) \/ is_runtime
  IN IF helpers # <<>> /\ injectable_resource_pot
     THEN PrependPolyfill(wrapped, helpers)
     ELSE wrapped

\* the calls of build_module_order followed by codegen: the modules of the
\* resource pot in any order; the order index of a module is its byte; at
\* most one module is missing from order_index_map; module "a" may be
\* CommonJS
CodegenInit ==
  /\ \E modules \in SUBSET PotModules :
       /\ resource_pot_modules \in IterationOrders(modules)
       /\ \E missing \in SubsetsUpTo(modules, 1) :
            order_index_map = [m \in modules \ missing |-> m[1]]
       /\ \E system \in {"EsModule", "CommonJs"} :
            module_analyzers =
              [m \in modules |->
                 [module_system |-> IF m = <<97>> THEN system ELSE "EsModule"]]
  /\ ordered_modules = <<>>
  /\ target_env \in {"Browser", "Node", "Library"}
  /\ is_runtime_bundle \in BOOLEAN
  /\ polyfill \in {<<>>, <<"h1", "h2">>}
  /\ polyfill_index_map = {}
  /\ bundle = <<>>
  /\ bapc = "order"
  /\ ba_index = 1
  /\ module_ast = <<>>
  /\ redeclare_commonjs_import = <<>>
  /\ reference_export = <<>>
  /\ reference_import = <<>>
  /\ reference_first_index = <<>>
  /\ commonjs_module_index = <<>>
  /\ total_bundle_reference = <<>>
  /\ export_raw = <<>>
  /\ patch_import_to_module = <<>>
  /\ patch_export_to_module = <<>>
  /\ statement_actions = <<>>
  /\ earlier_actions = <<>>

codegenFrame == <<module_analyzers, is_runtime_bundle, module_ast,
                  redeclare_commonjs_import, reference_export, reference_import,
                  reference_first_index, commonjs_module_index, total_bundle_reference,
                  export_raw, patch_import_to_module, patch_export_to_module,
                  polyfill, polyfill_index_map, resource_pot_modules, order_index_map,
                  target_env, stripVars, linkVars>>

\* lines 99-112: build_module_order
BuildModuleOrder ==
  /\ bapc = "order"
  /\ ordered_modules' = SortByOrderIndex(resource_pot_modules, order_index_map)
  /\ bapc' = "codegen"
  /\ UNCHANGED <<codegenFrame, ba_index, bundle>>
  /\ UNCHANGED outsideBa

\* lines 1479-1559: one round of the loop over self.ordered_modules; the
\* clone sorted by is_commonjs (lines 1475-1477) is not read
CodegenModule ==
  /\ bapc = "codegen"
  /\ ba_index <= Len(ordered_modules)
  /\ bundle' = Append(bundle, Piece("source", ordered_modules[ba_index], ""))
  /\ ba_index' = ba_index + 1
  /\ UNCHANGED <<codegenFrame, ordered_modules, bapc>>
  /\ UNCHANGED outsideBa

\* lines 1490-1537: try_with, codegen_module, from_utf8 or to_writer return
\* an error, which `?` returns
CodegenModuleError ==
  /\ bapc = "codegen"
  /\ ba_index <= Len(ordered_modules)
  /\ bapc' = "codegen_err"
  /\ UNCHANGED <<codegenFrame, ordered_modules, ba_index, bundle>>
  /\ UNCHANGED outsideBa

\* lines 1561-1587: the wrapper, the polyfill helpers and Ok(bundle)
CodegenReturn ==
  /\ bapc = "codegen"
  /\ ba_index > Len(ordered_modules)
  /\ bundle' = WrapAndInject(bundle, target_env, is_runtime_bundle, polyfill,
                             ordered_modules)
  /\ bapc' = "generated"
  /\ UNCHANGED <<codegenFrame, ordered_modules, ba_index>>
  /\ UNCHANGED outsideBa

CodegenNext ==
  \/ BuildModuleOrder
  \/ CodegenModule
  \/ CodegenModuleError
  \/ CodegenReturn

\* a call of build_module_order followed by a call of codegen
CodegenStart == CodegenInit /\ LinkIdle /\ HoistIdle /\ RegenIdle /\ UpdIdle /\ RtIdle

SpecCodegen == CodegenStart /\ [][CodegenNext]_vars

\* codegen returned Ok(bundle)
Generated == bapc = "generated"

\* the positions of the pieces of the bundle that are of kind
PiecesOfKind(kind) == {p \in DOMAIN bundle : bundle[p].kind = kind}

\* C22: the bundle of a Runtime pot for target_env Browser begins with
\* "((function(){" and ends with "})());", with every module segment and
\* every polyfill helper text between them; any other bundle has no wrapper
C22_BrowserRuntimeWrapped ==
  Generated =>
    IF target_env = "Browser" /\ is_runtime_bundle
    THEN /\ Len(bundle) >= 2
         /\ bundle[1] = Piece("text", <<>>, "((function(){")
         /\ bundle[Len(bundle)] = Piece("text", <<>>, "})());")
         /\ PiecesOfKind("text") = {1, Len(bundle)}
    ELSE PiecesOfKind("text") = {}

\* the modules of the segments of the bundle, in order
Segments == [i \in 1..Cardinality(PiecesOfKind("source")) |->
               bundle[CHOOSE p \in PiecesOfKind("source") :
                        Cardinality({q \in PiecesOfKind("source") : q <= p}) = i].module]

\* the position of the segment of module_id
SegmentOf(module_id) == CHOOSE i \in DOMAIN Segments : Segments[i] = module_id

\* C23: the segments of the bundle are the modules of the resource pot, each
\* once, and a module with a larger order index precedes every module with
\* a smaller one, also when some module is missing from order_index_map
C23_SegmentsInExecutionOrder ==
  Generated =>
    /\ Len(Segments) = Len(resource_pot_modules)
    /\ Range(Segments) = Range(resource_pot_modules)
    /\ \A A \in DOMAIN order_index_map, B \in DOMAIN order_index_map :
         order_index_map[B] > order_index_map[A] => SegmentOf(B) < SegmentOf(A)

(***************************************************************************)
(* resource_pot_to_runtime_object (plugin_runtime, render_resource_pot):   *)
(* the modules of a pot are rendered by the tasks of a parallel iterator,  *)
(* each of which pushes its result under the lock of the local Vec, and    *)
(* the function sorts what was gathered.                                   *)
(***************************************************************************)
\* the largest number of modules of a pot handed to resource_pot_to_runtime_object
MaxRuntimeModules == 3

\* the names of the external modules a rendered module may refer to
ExternalNames == {<<102>>, <<111>>}

\* render_module_result.external_modules: what one module may contribute
ExternalShapes == {<<>>, <<<<111>>>>, <<<<111>>, <<102>>>>}

\* a plausible slip of lines 174-179: the gathered results are handed on as
\* they were pushed
SortByModuleIdOmitted(list) == list

\* Vec::sort_by / Vec::sort with the order of the strings: a stable insertion
\* of each element after the elements that are not greater
RECURSIVE SortByModuleId(_)
SortByModuleId(list) ==
  IF Len(list) <= 1 THEN list
  ELSE LET n == Len(list)
           sorted == SortByModuleId(SubSeq(list, 1, n - 1))
           last == list[n]
           before == {i \in 1..(n - 1) : ~StrLess(IdToString(last), IdToString(sorted[i]))}
           k == Cardinality(before)
       IN SubSeq(sorted, 1, k) \o <<last>> \o SubSeq(sorted, k + 1, n - 1)

\* render_resource_pot_ast: the external modules of the rendered modules, in
\* the order of the list it is given
RECURSIVE CollectExternalModules(_, _)
CollectExternalModules(list, external) ==
  IF list = <<>> THEN <<>>
  ELSE external[Head(list)] \o CollectExternalModules(Tail(list), external)

RuntimeObjectInit ==
  /\ \E S \in SubsetsUpTo(ModuleIds, MaxRuntimeModules) :
       /\ ro_pot_modules \in IterationOrders(S)
       /\ \E missing \in SubsetsUpTo(S, 1) : ro_graph = ModuleIds \ missing
       /\ ro_failing \in SubsetsUpTo(S, 1)
       /\ ro_external \in [S -> ExternalShapes]
       /\ ro_tasks = S
  /\ ro_modules = <<>>
  /\ ro_pc = "tasks"
  /\ ro_result = <<>>

roInputs == <<ro_pot_modules, ro_graph, ro_failing, ro_external>>

\* lines 86-170, Ok: one task of the parallel iterator renders its module and
\* pushes the result under the lock
RenderTask(m_id) ==
  /\ ro_pc \in {"tasks", "failed"}
  /\ m_id \in ro_tasks
  /\ m_id \in ro_graph
  /\ m_id \notin ro_failing
  /\ ro_tasks' = ro_tasks \ {m_id}
  /\ ro_modules' = Append(ro_modules, m_id)
  /\ UNCHANGED <<roInputs, ro_pc, ro_result>>
  /\ UNCHANGED outsideRo

\* lines 87-89: the module graph does not hold the module of the task
RenderTaskPanic(m_id) ==
  /\ ro_pc \in {"tasks", "failed"}
  /\ m_id \in ro_tasks
  /\ m_id \notin ro_graph
  /\ ro_pc' = "panic"
  /\ UNCHANGED <<roInputs, ro_tasks, ro_modules, ro_result>>
  /\ UNCHANGED outsideRo

\* lines 131-136: render_module fails in a task; the tasks that are running
\* may still finish, try_for_each returns the error
RenderTaskError(m_id) ==
  /\ ro_pc \in {"tasks", "failed"}
  /\ m_id \in ro_tasks
  /\ m_id \in ro_graph
  /\ m_id \in ro_failing
  /\ ro_tasks' = ro_tasks \ {m_id}
  /\ ro_pc' = "failed"
  /\ UNCHANGED <<roInputs, ro_modules, ro_result>>
  /\ UNCHANGED outsideRo

\* line 171: the ? on the result of try_for_each
RenderTasksFailed ==
  /\ ro_pc = "failed"
  /\ ro_pc' = "err"
  /\ UNCHANGED <<roInputs, ro_tasks, ro_modules, ro_result>>
  /\ UNCHANGED outsideRo

\* lines 173-189: every task has pushed; the results are sorted by module id,
\* handed to render_resource_pot_ast, and the external modules are sorted
SortAndRender ==
  /\ ro_pc = "tasks"
  /\ ro_tasks = {}
  /\ LET sorted == SortByModuleId(ro_modules)
     IN ro_result' = [modules |-> sorted,
                      external_modules |->
                        SortByModuleId(CollectExternalModules(sorted, ro_external))]
  /\ ro_pc' = "done"
  /\ UNCHANGED <<roInputs, ro_tasks, ro_modules>>
  /\ UNCHANGED outsideRo

RuntimeObjectNext ==
  \/ \E m_id \in ModuleIds : RenderTask(m_id)
  \/ \E m_id \in ModuleIds : RenderTaskPanic(m_id)
  \/ \E m_id \in ModuleIds : RenderTaskError(m_id)
  \/ RenderTasksFailed
  \/ SortAndRender

RuntimeObjectStart ==
  RuntimeObjectInit /\ GrIdle /\ RsIdle /\ LkIdle /\ HoistIdle /\ RegenIdle /\ UpdIdle /\ BaIdle

SpecRuntimeObject == RuntimeObjectStart /\ [][RuntimeObjectNext]_vars

\* a list is in ascending order of the strings
Ascending(list) ==
  \A i \in 1..(Len(list) - 1) : ~StrLess(IdToString(list[i + 1]), IdToString(list[i]))

\* how often a value occurs in a list
CountIn(list, x) == Cardinality({i \in 1..Len(list) : list[i] = x})

\* C24: whatever the order in which the tasks completed, the list handed to
\* render_resource_pot_ast is the modules of the pot in ascending order of
\* their ids, each once, and the external list is in ascending order and
\* holds what the modules of the pot contributed
C24_SortedWhateverCompletionOrder ==
  ro_pc = "done" =>
    /\ ro_result.modules = SortedIds(Range(ro_pot_modules))
    /\ \A m \in Range(ro_pot_modules) : CountIn(ro_result.modules, m) = 1
    /\ Ascending(ro_result.external_modules)
    /\ \A x \in ExternalNames :
         CountIn(ro_result.external_modules, x) =
           Cardinality({<<m, i>> \in Range(ro_pot_modules) \X (1..2) :
                          i <= Len(ro_external[m]) /\ ro_external[m][i] = x})

\* the tasks completed in an order that is not the order of the module ids,
\* and the function returned
C24_Witness ==
  /\ ro_pc = "done"
  /\ Len(ro_modules) >= 2
  /\ ~Ascending(ro_modules)
  /\ Len(ro_result.external_modules) >= 2

(***************************************************************************)
(* FarmPluginRuntime (plugin_runtime, lib.rs): the hooks that build the    *)
(* AST of a resource pot.  A statement is represented by its kind.         *)
(***************************************************************************)
\* the largest number of hooks of FarmPluginRuntime that run on a pot
MaxHookCalls == 5

ResourcePotTypes == {"Js", "Runtime", "Css"}

\* the body of minimal-runtime.js once parsed: the call of the runtime, whose
\* arguments process_resource_pot_map replaces
MinimalRuntimeBody == <<"runtime">>

\* the body of resource-wrapper.js once parsed: the call whose argument
\* render_resource_pot replaces
WrapperBody == <<"wrapper">>

\* lines 410-426: the statements of farm-internal-call-entry-module
CallEntryBody == <<"const_global_this", "const_module_system", "bootstrap",
                   "const_entry", "export_default">>

\* a plausible slip of lines 404-406: the runtime statement is pushed
InsertAtEnd(body, item) == Append(body, item)

\* lines 404-406: Vec::insert(0, item)
InsertAtFront(body, item) == <<item>> \o body

HookInit ==
  /\ resource_pot_type \in ResourcePotTypes
  /\ entry_module \in {None, Some(<<97>>)}
  /\ resource_pot_ast = <<>>
  /\ runtime_ast = None
  /\ gr_returned = ""
  /\ gr_before = <<>>
  /\ gr_since_render = 0
  /\ gr_injections = 0
  /\ gr_calls = 0

HookRuns ==
  /\ gr_calls < MaxHookCalls
  /\ gr_returned # "panic"
  /\ gr_calls' = gr_calls + 1

\* lines 255-311: the first pot of type Runtime of the map, if there is one,
\* becomes the runtime ast; the parse of the minimal runtime may fail
ProcessResourcePotMap ==
  /\ HookRuns
  /\ \E has_runtime_pot \in BOOLEAN, parsed \in BOOLEAN :
       IF ~has_runtime_pot
       THEN /\ gr_returned' = "Some"
            /\ UNCHANGED runtime_ast
       ELSE IF ~parsed
       THEN /\ gr_returned' = "Err"
            /\ UNCHANGED runtime_ast
       ELSE /\ gr_returned' = "Some"
            /\ runtime_ast' = Some(MinimalRuntimeBody)
  /\ UNCHANGED <<resource_pot_type, entry_module, resource_pot_ast, gr_before,
                 gr_since_render, gr_injections>>
  /\ UNCHANGED outsideGr

\* lines 313-354: the meta of a Js pot is replaced by the wrapper around the
\* runtime object of its modules; the parse of the wrapper may fail
RenderResourcePot ==
  /\ HookRuns
  /\ \E parsed \in BOOLEAN :
       IF resource_pot_type # "Js"
       THEN /\ gr_returned' = "None"
            /\ UNCHANGED <<resource_pot_ast, gr_since_render>>
       ELSE IF ~parsed
       THEN /\ gr_returned' = "Err"
            /\ UNCHANGED <<resource_pot_ast, gr_since_render>>
       ELSE /\ gr_returned' = "Some"
            /\ resource_pot_ast' = WrapperBody
            /\ gr_since_render' = 0
  /\ UNCHANGED <<resource_pot_type, entry_module, runtime_ast, gr_before, gr_injections>>
  /\ UNCHANGED outsideGr

\* lines 356-438
GenerateResources ==
  /\ HookRuns
  /\ gr_before' = resource_pot_ast
  /\ \E caller_is_self \in BOOLEAN, generated \in BOOLEAN :
       IF caller_is_self
       THEN \* lines 362-364
            /\ gr_returned' = "None"
            /\ UNCHANGED <<resource_pot_ast, gr_since_render>>
       ELSE IF resource_pot_type = "Runtime"
       THEN \* lines 367-389
            /\ gr_returned' = IF runtime_ast = None THEN "panic"
                              ELSE IF generated THEN "Resource" ELSE "Err"
            /\ UNCHANGED <<resource_pot_ast, gr_since_render>>
       ELSE IF entry_module # None /\ resource_pot_type = "Js"
       THEN \* lines 394-429
            IF runtime_ast = None
            THEN /\ gr_returned' = "panic"
                 /\ UNCHANGED <<resource_pot_ast, gr_since_render>>
            ELSE LET inserted == InsertAtFront(resource_pot_ast, Head(runtime_ast[1]))
                 IN IF ~generated
                    THEN \* the ? of line 426
                         /\ gr_returned' = "Err"
                         /\ resource_pot_ast' = inserted
                         /\ gr_since_render' = gr_since_render + 1
                    ELSE /\ gr_returned' = "Injected"
                         /\ resource_pot_ast' = inserted \o CallEntryBody
                         /\ gr_since_render' = gr_since_render + 1
       ELSE \* lines 430-437
            /\ gr_returned' = "None"
            /\ UNCHANGED <<resource_pot_ast, gr_since_render>>
  /\ gr_injections' = IF gr_returned' = "Injected" THEN gr_injections + 1 ELSE gr_injections
  /\ UNCHANGED <<resource_pot_type, entry_module, runtime_ast>>
  /\ UNCHANGED outsideGr

HookNext ==
  \/ ProcessResourcePotMap
  \/ RenderResourcePot
  \/ GenerateResources

HookStart == HookInit /\ RoIdle /\ RsIdle /\ LkIdle /\ HoistIdle /\ RegenIdle /\ UpdIdle /\ BaIdle

SpecHook == HookStart /\ [][HookNext]_vars

\* generate_resources injected the runtime and the call of the entry into
\* the pot and returned
Injected == gr_returned = "Injected"

\* C25: after generate_resources injected into a Js pot with an entry, the
\* runtime statement is the first statement and the statements of the call
\* of the entry, the bootstrap among them, are the last, after every
\* statement that the AST had before the call; if the call followed a
\* render_resource_pot of the pot, the AST has one runtime statement and one
\* bootstrap statement
C25_RuntimeFirstBootstrapLast ==
  Injected =>
    /\ resource_pot_type = "Js" /\ entry_module # None
    /\ resource_pot_ast[1] = "runtime"
    /\ SubSeq(resource_pot_ast, 2, 1 + Len(gr_before)) = gr_before
    /\ SubSeq(resource_pot_ast, 2 + Len(gr_before), Len(resource_pot_ast)) = CallEntryBody
    /\ gr_since_render = 1 =>
         /\ CountIn(resource_pot_ast, "runtime") = 1
         /\ CountIn(resource_pot_ast, "bootstrap") = 1

\* the pot is regenerated: it had been injected, was rendered again and
\* injected again
C25_Witness ==
  /\ Injected
  /\ gr_since_render = 1
  /\ gr_injections = 2
  /\ gr_before = WrapperBody

(***************************************************************************)
(* FarmPluginRuntime (plugin_runtime, lib.rs): resolve, load and           *)
(* finalize_module.  A string is a sequence of pieces: the piece           *)
(* ".farm-runtime" is an occurrence of RUNTIME_SUFFIX, the piece "a" is    *)
(* text in which the suffix does not occur.                                *)
(***************************************************************************)
\* the largest number of pieces of a source or of a path
MaxPathLen == 3

\* the calls of FarmPluginRuntime::resolve that the stack may hold
MaxResolveDepth == 3

RUNTIME_SUFFIX == ".farm-runtime"

Pieces == {"a", RUNTIME_SUFFIX}

\* the strings that are not empty
Paths == SeqsUpTo(Pieces, MaxPathLen) \ {<<>>}

\* str::ends_with(RUNTIME_SUFFIX)
EndsWithSuffix(str) == str # <<>> /\ str[Len(str)] = RUNTIME_SUFFIX

\* a string without the suffix at its end
StripSuffix(str) ==
  IF EndsWithSuffix(str) THEN SubSeq(str, 1, Len(str) - 1) ELSE str

\* str::replace(RUNTIME_SUFFIX, ""): every occurrence is taken out
RECURSIVE ReplaceSuffix(_)
ReplaceSuffix(str) ==
  IF str = <<>> THEN <<>>
  ELSE IF Head(str) = RUNTIME_SUFFIX THEN ReplaceSuffix(Tail(str))
  ELSE <<Head(str)>> \o ReplaceSuffix(Tail(str))

\* format!("{}{}", res.resolved_path, RUNTIME_SUFFIX)
WithSuffix(str) == Append(str, RUNTIME_SUFFIX)

\* a plausible slip of lines 107-110: the hook context of the caller is
\* handed to the delegated resolve
CallerHandedOn(caller) == caller

\* lines 107-110: the caller of the delegated resolve
DelegatedCaller(caller) == "FarmPluginRuntime"

\* the results of a hook: Ok(None), Ok(Some(path)) and Err
ResultNone == [kind |-> "None", path |-> <<>>]

ResultSome(path) == [kind |-> "Some", path |-> path]

ResultErr == [kind |-> "Err", path |-> <<>>]

\* lines 91-99: the source is a runtime module or its importer is one
IsRuntimeSource(source) ==
  \/ EndsWithSuffix(source)
  \/ rs_importer # None /\ EndsWithSuffix(rs_importer[1])

ResolveInit ==
  /\ rs_source \in Paths
  /\ rs_importer \in {None} \cup {Some(path) : path \in Paths}
  /\ rs_driver \in {ResultNone, ResultErr} \cup {ResultSome(path) : path \in Paths}
  /\ \E caller \in {"", "FarmPluginRuntime", "FarmPluginResolve"} :
       rs_stack = <<[caller |-> caller, source |-> rs_source]>>
  /\ rs_pc = "resolve"
  /\ rs_result = <<>>
  /\ ld_read = None
  /\ ld_returned = ""
  /\ fm_id = <<>>
  /\ fm_module_type = ""

rsInputs == <<rs_source, rs_importer, rs_driver>>

rsFrame == <<ld_read, ld_returned, fm_id, fm_module_type>>

\* the resolve on top of the stack returns result: to the build if it is the
\* outermost, else to the plugin driver that called it
ResolveReturns(result) ==
  /\ rs_stack' = SubSeq(rs_stack, 1, Len(rs_stack) - 1)
  /\ IF Len(rs_stack) = 1
     THEN /\ rs_pc' = "resolved"
          /\ rs_result' = result
     ELSE /\ rs_pc' = "driver"
          /\ UNCHANGED rs_result

\* lines 88-90: a resolve that FarmPluginRuntime itself asked for
ResolveOfOwnCaller ==
  /\ rs_pc = "resolve"
  /\ rs_stack[Len(rs_stack)].caller = "FarmPluginRuntime"
  /\ ResolveReturns(ResultNone)
  /\ UNCHANGED <<rsInputs, rsFrame>>
  /\ UNCHANGED outsideRs

\* lines 119-121: neither the source nor its importer is a runtime module
ResolveOfOtherSource ==
  /\ rs_pc = "resolve"
  /\ rs_stack[Len(rs_stack)].caller # "FarmPluginRuntime"
  /\ ~IsRuntimeSource(rs_stack[Len(rs_stack)].source)
  /\ ResolveReturns(ResultNone)
  /\ UNCHANGED <<rsInputs, rsFrame>>
  /\ UNCHANGED outsideRs

\* lines 100-111: the resolve is delegated to the plugin driver, which asks
\* the plugins in turn: FarmPluginRuntime::resolve is entered again, unless a
\* plugin before it answers
ResolveDelegates ==
  /\ rs_pc = "resolve"
  /\ LET top == rs_stack[Len(rs_stack)]
     IN /\ top.caller # "FarmPluginRuntime"
        /\ IsRuntimeSource(top.source)
        /\ \E entered_again \in BOOLEAN :
             IF entered_again /\ Len(rs_stack) < MaxResolveDepth
             THEN /\ rs_stack' = Append(rs_stack, [caller |-> DelegatedCaller(top.caller),
                                                   source |-> ReplaceSuffix(top.source)])
                  /\ rs_pc' = "resolve"
             ELSE /\ rs_pc' = "driver"
                  /\ UNCHANGED rs_stack
  /\ UNCHANGED <<rsInputs, rs_result, rsFrame>>
  /\ UNCHANGED outsideRs

\* lines 111-118: the plugin driver returns the answer of the other plugins
\* to the resolve that delegated
DriverReturns ==
  /\ rs_pc = "driver"
  /\ ResolveReturns(IF rs_driver.kind = "Some"
                    THEN ResultSome(WithSuffix(rs_driver.path))
                    ELSE rs_driver)
  /\ UNCHANGED <<rsInputs, rsFrame>>
  /\ UNCHANGED outsideRs

\* lines 124-145: load of the path that resolve returned
Load ==
  /\ rs_pc = "resolved"
  /\ rs_result.kind = "Some"
  /\ rs_pc' = "loaded"
  /\ IF EndsWithSuffix(rs_result.path)
     THEN /\ ld_read' = Some(ReplaceSuffix(rs_result.path))
          /\ ld_returned' \in {"Some", "Err", "panic"}
     ELSE /\ ld_returned' = "None"
          /\ UNCHANGED ld_read
  /\ UNCHANGED <<rsInputs, rs_stack, rs_result, fm_id, fm_module_type>>
  /\ UNCHANGED outsideRs

\* lines 232-253: finalize_module of a module
FinalizeModule ==
  /\ rs_pc = "loaded"
  /\ ld_returned \in {"Some", "None"}
  /\ rs_pc' = "finalized"
  /\ \E id \in {rs_result.path, rs_driver.path} :
       /\ fm_id' = id
       /\ fm_module_type' = IF EndsWithSuffix(id) THEN "Runtime" ELSE "Js"
  /\ UNCHANGED <<rsInputs, rs_stack, rs_result, ld_read, ld_returned>>
  /\ UNCHANGED outsideRs

ResolveNext ==
  \/ ResolveOfOwnCaller
  \/ ResolveOfOtherSource
  \/ ResolveDelegates
  \/ DriverReturns
  \/ Load
  \/ FinalizeModule

ResolveStart ==
  ResolveInit /\ RoIdle /\ GrIdle /\ LkIdle /\ HoistIdle /\ RegenIdle /\ UpdIdle /\ BaIdle

SpecResolve == ResolveStart /\ [][ResolveNext]_vars

\* a hook that returns is not kept from returning
SpecResolveFair == SpecResolve /\ WF_vars(ResolveNext)

\* the outermost resolve returned Ok(Some(res))
Resolved == rs_pc \in {"resolved", "loaded", "finalized"} /\ rs_result.kind = "Some"

\* C26: a resolve of a runtime source whose delegated resolution succeeds
\* returns the delegated path with the suffix at its end, once; load of that
\* path reads the file at the path without that suffix, which is the path the
\* delegated resolution found; finalize_module gives every module whose id
\* ends with the suffix the type Runtime
C26_RuntimeIdentityRoundTrips ==
  /\ Resolved =>
       /\ IsRuntimeSource(rs_source)
       /\ EndsWithSuffix(rs_result.path)
       /\ StripSuffix(rs_result.path) = rs_driver.path
  /\ ld_read # None =>
       /\ ld_read = Some(StripSuffix(rs_result.path))
       /\ ld_read = Some(rs_driver.path)
  /\ rs_pc = "finalized" /\ EndsWithSuffix(fm_id) => fm_module_type = "Runtime"

\* C28: no more than two calls of FarmPluginRuntime::resolve are on the
\* stack, a call that has the caller "FarmPluginRuntime" has delegated
\* nothing, and the outermost call returns
C28_ResolveDoesNotCycle ==
  /\ [](/\ Len(rs_stack) <= 2
        /\ \A i \in 1..(Len(rs_stack) - 1) : rs_stack[i].caller # "FarmPluginRuntime")
  /\ <>(rs_stack = <<>>)

\* the delegated resolve has entered FarmPluginRuntime::resolve again, with
\* the caller "FarmPluginRuntime"
C28_Witness ==
  /\ Len(rs_stack) = 2
  /\ rs_stack[2].caller = "FarmPluginRuntime"
  /\ rs_pc = "resolve"

(***************************************************************************)
(* The locks of the CompilationContext: module_graph, module_group_graph   *)
(* and resource_pot_map are RwLocks, resources_map is a Mutex.  Each       *)
(* thread runs one of the functions that take them; a step that acquires   *)
(* a lock is enabled when the lock can be had.                             *)
(***************************************************************************)
\* the number of threads
MaxThreads == 3

\* the largest number of affected module groups of a call
MaxAffectedGroups == 1

Threads == 1..MaxThreads

Programs == {"regenerate_resources_for_affected_module_groups",
             "render_and_generate_update_resource",
             "render_resource_pot",
             "process_resource_pot_map"}

\* an RwLock that nobody holds
Unlocked == [writer |-> 0, readers |-> {}]

\* RwLock::read returns when no writer holds the lock
CanRead(lock) == lock.writer = 0

\* RwLock::write returns when nobody holds the lock
CanWrite(lock) == lock.writer = 0 /\ lock.readers = {}

ReadBy(lock, t) == [lock EXCEPT !.readers = @ \cup {t}]

WrittenBy(lock, t) == [lock EXCEPT !.writer = t]

\* the guards of the thread are dropped
DroppedBy(lock, t) ==
  [writer |-> IF lock.writer = t THEN 0 ELSE lock.writer, readers |-> lock.readers \ {t}]

\* where a thread starts in its function
EntryOf(program, groups) ==
  IF program = "regenerate_resources_for_affected_module_groups"
  THEN IF groups > 0 THEN "clear_write_graph" ELSE "rerender_write_pots"
  ELSE IF program = "render_and_generate_update_resource" THEN "update_read_graph"
  ELSE IF program = "render_resource_pot" THEN "pot_read_graph"
  ELSE "map_write_graph"

LockInit ==
  /\ lk_program \in [Threads -> Programs]
  /\ lk_groups \in [Threads -> 0..MaxAffectedGroups]
  /\ \A t \in Threads :
       lk_program[t] # "regenerate_resources_for_affected_module_groups" => lk_groups[t] = 0
  /\ lk_pc = [t \in Threads |-> EntryOf(lk_program[t], lk_groups[t])]
  /\ lk_module_graph = Unlocked
  /\ lk_module_group_graph = Unlocked
  /\ lk_resource_pot_map = Unlocked
  /\ lk_resources_map = 0

lkLocks == <<lk_module_graph, lk_module_group_graph, lk_resource_pot_map, lk_resources_map>>

\* the thread goes from one position to the next
Goes(t, from, to) ==
  /\ lk_pc[t] = from
  /\ lk_pc' = [lk_pc EXCEPT ![t] = to]
  /\ UNCHANGED lk_program
  /\ UNCHANGED outsideLk

\* regenerate_resources.rs line 175: context.module_graph.write()
ClearWriteGraph(t) ==
  /\ Goes(t, "clear_write_graph", "clear_read_groups")
  /\ CanWrite(lk_module_graph)
  /\ lk_module_graph' = WrittenBy(lk_module_graph, t)
  /\ UNCHANGED <<lk_groups, lk_module_group_graph, lk_resource_pot_map, lk_resources_map>>

\* line 176: context.module_group_graph.read()
ClearReadGroups(t) ==
  /\ Goes(t, "clear_read_groups", "clear_loop")
  /\ CanRead(lk_module_group_graph)
  /\ lk_module_group_graph' = ReadBy(lk_module_group_graph, t)
  /\ UNCHANGED <<lk_groups, lk_module_graph, lk_resource_pot_map, lk_resources_map>>

\* lines 177-183: the loop, and both guards are dropped at the return
ClearReturns(t) ==
  /\ Goes(t, "clear_loop", "diff_write_groups")
  /\ lk_module_graph' = DroppedBy(lk_module_graph, t)
  /\ lk_module_group_graph' = DroppedBy(lk_module_group_graph, t)
  /\ UNCHANGED <<lk_groups, lk_resource_pot_map, lk_resources_map>>

\* line 128: context.module_group_graph.write()
DiffWriteGroups(t) ==
  /\ Goes(t, "diff_write_groups", "hook")
  /\ CanWrite(lk_module_group_graph)
  /\ lk_module_group_graph' = WrittenBy(lk_module_group_graph, t)
  /\ UNCHANGED <<lk_groups, lk_module_graph, lk_resource_pot_map, lk_resources_map>>

\* lines 132-137: call_partial_bundling_hook returns the pots
HookReturns(t) ==
  /\ Goes(t, "hook", "diff_write_pots")
  /\ UNCHANGED <<lk_groups, lkLocks>>

\* line 133: the hook fails, the ? returns and the guard is dropped
HookFails(t) ==
  /\ Goes(t, "hook", "done")
  /\ lk_module_group_graph' = DroppedBy(lk_module_group_graph, t)
  /\ UNCHANGED <<lk_groups, lk_module_graph, lk_resource_pot_map, lk_resources_map>>

\* line 139: context.resource_pot_map.write()
DiffWritePots(t) ==
  /\ Goes(t, "diff_write_pots", "diff_remove")
  /\ CanWrite(lk_resource_pot_map)
  /\ lk_resource_pot_map' = WrittenBy(lk_resource_pot_map, t)
  /\ UNCHANGED <<lk_groups, lk_module_graph, lk_module_group_graph, lk_resources_map>>

\* line 148: context.resources_map.lock() for an obsolete pot
DiffLockResources(t) ==
  /\ Goes(t, "diff_remove", "diff_removing")
  /\ lk_resources_map = 0
  /\ lk_resources_map' = t
  /\ UNCHANGED <<lk_groups, lk_module_graph, lk_module_group_graph, lk_resource_pot_map>>

\* lines 150-153: the resources are removed, the guard is dropped at the end
\* of the block
DiffUnlockResources(t) ==
  /\ Goes(t, "diff_removing", "diff_remove")
  /\ lk_resources_map' = 0
  /\ UNCHANGED <<lk_groups, lk_module_graph, lk_module_group_graph, lk_resource_pot_map>>

\* lines 156-168: the new pots are added and the guards are dropped at the
\* return; line 84: the next affected group, or line 91
DiffReturns(t) ==
  /\ lk_groups' = [lk_groups EXCEPT ![t] = @ - 1]
  /\ Goes(t, "diff_remove", EntryOf(lk_program[t], lk_groups'[t]))
  /\ lk_module_group_graph' = DroppedBy(lk_module_group_graph, t)
  /\ lk_resource_pot_map' = DroppedBy(lk_resource_pot_map, t)
  /\ UNCHANGED <<lk_module_graph, lk_resources_map>>

\* line 91: context.resource_pot_map.write()
RerenderWritePots(t) ==
  /\ Goes(t, "rerender_write_pots", "rerender_read_graph")
  /\ CanWrite(lk_resource_pot_map)
  /\ lk_resource_pot_map' = WrittenBy(lk_resource_pot_map, t)
  /\ UNCHANGED <<lk_groups, lk_module_graph, lk_module_group_graph, lk_resources_map>>

\* line 93: context.module_graph.read()
RerenderReadGraph(t) ==
  /\ Goes(t, "rerender_read_graph", "rerender_loop")
  /\ CanRead(lk_module_graph)
  /\ lk_module_graph' = ReadBy(lk_module_graph, t)
  /\ UNCHANGED <<lk_groups, lk_module_group_graph, lk_resource_pot_map, lk_resources_map>>

\* line 104: context.resources_map.lock() for an updated module
RerenderLockResources(t) ==
  /\ Goes(t, "rerender_loop", "rerender_clearing")
  /\ lk_resources_map = 0
  /\ lk_resources_map' = t
  /\ UNCHANGED <<lk_groups, lk_module_graph, lk_module_group_graph, lk_resource_pot_map>>

\* lines 105-111: the guard is dropped at the end of the iteration
RerenderUnlockResources(t) ==
  /\ Goes(t, "rerender_clearing", "rerender_loop")
  /\ lk_resources_map' = 0
  /\ UNCHANGED <<lk_groups, lk_module_graph, lk_module_group_graph, lk_resource_pot_map>>

\* lines 113-119: render_resource_pots_and_generate_resources is called
RerenderStarts(t) ==
  /\ Goes(t, "rerender_loop", "rerender_render")
  /\ UNCHANGED <<lk_groups, lkLocks>>

\* lines 119-120: the pots are rendered, the guards are dropped at the return
RerenderReturns(t) ==
  /\ Goes(t, "rerender_render", "done")
  /\ lk_resource_pot_map' = DroppedBy(lk_resource_pot_map, t)
  /\ lk_module_graph' = DroppedBy(lk_module_graph, t)
  /\ UNCHANGED <<lk_groups, lk_module_group_graph, lk_resources_map>>

\* line 48: context.module_graph.read()
UpdateReadGraph(t) ==
  /\ Goes(t, "update_read_graph", "update_render")
  /\ CanRead(lk_module_graph)
  /\ lk_module_graph' = ReadBy(lk_module_graph, t)
  /\ UNCHANGED <<lk_groups, lk_module_group_graph, lk_resource_pot_map, lk_resources_map>>

\* lines 49-75: resource_pot_to_runtime_object_lit and the rest, the guard is
\* dropped at the return
UpdateReturns(t) ==
  /\ Goes(t, "update_render", "done")
  /\ lk_module_graph' = DroppedBy(lk_module_graph, t)
  /\ UNCHANGED <<lk_groups, lk_module_group_graph, lk_resource_pot_map, lk_resources_map>>

\* lib.rs line 320: context.module_graph.read()
PotReadGraph(t) ==
  /\ Goes(t, "pot_read_graph", "pot_render")
  /\ CanRead(lk_module_graph)
  /\ lk_module_graph' = ReadBy(lk_module_graph, t)
  /\ UNCHANGED <<lk_groups, lk_module_group_graph, lk_resource_pot_map, lk_resources_map>>

\* lib.rs lines 321-353: resource_pot_to_runtime_object_lit and the wrapper
PotReturns(t) ==
  /\ Goes(t, "pot_render", "done")
  /\ lk_module_graph' = DroppedBy(lk_module_graph, t)
  /\ UNCHANGED <<lk_groups, lk_module_group_graph, lk_resource_pot_map, lk_resources_map>>

\* lib.rs line 260: context.module_graph.write()
MapWriteGraph(t) ==
  /\ Goes(t, "map_write_graph", "map_render")
  /\ CanWrite(lk_module_graph)
  /\ lk_module_graph' = WrittenBy(lk_module_graph, t)
  /\ UNCHANGED <<lk_groups, lk_module_group_graph, lk_resource_pot_map, lk_resources_map>>

\* lib.rs lines 262-310: resource_pot_to_runtime_object_lit of the runtime
\* pot, the guard is dropped at the return
MapReturns(t) ==
  /\ Goes(t, "map_render", "done")
  /\ lk_module_graph' = DroppedBy(lk_module_graph, t)
  /\ UNCHANGED <<lk_groups, lk_module_group_graph, lk_resource_pot_map, lk_resources_map>>

LockNext ==
  \E t \in Threads :
    \/ ClearWriteGraph(t)
    \/ ClearReadGroups(t)
    \/ ClearReturns(t)
    \/ DiffWriteGroups(t)
    \/ HookReturns(t)
    \/ HookFails(t)
    \/ DiffWritePots(t)
    \/ DiffLockResources(t)
    \/ DiffUnlockResources(t)
    \/ DiffReturns(t)
    \/ RerenderWritePots(t)
    \/ RerenderReadGraph(t)
    \/ RerenderLockResources(t)
    \/ RerenderUnlockResources(t)
    \/ RerenderStarts(t)
    \/ RerenderReturns(t)
    \/ UpdateReadGraph(t)
    \/ UpdateReturns(t)
    \/ PotReadGraph(t)
    \/ PotReturns(t)
    \/ MapWriteGraph(t)
    \/ MapReturns(t)

LockStart ==
  LockInit /\ RoIdle /\ GrIdle /\ RsIdle /\ HoistIdle /\ RegenIdle /\ UpdIdle /\ BaIdle

SpecLocks == LockStart /\ [][LockNext]_vars

\* the thread is where a resource pot is rendered or linked
Rendering(t) ==
  lk_pc[t] \in {"rerender_render", "update_render", "pot_render", "map_render"}

\* C27: a thread that renders a resource pot, or that is in the
\* partial-bundling hook, does not hold the write lock of the module graph
C27_NoRenderUnderGraphWriteLock ==
  \A t \in Threads :
    Rendering(t) \/ lk_pc[t] = "hook" => lk_module_graph.writer # t

\* the threads that hold the lock the thread is waiting for
WaitsFor(t) ==
  LET holders(lock) == (lock.readers \cup {lock.writer}) \ {0, t}
      writers(lock) == {lock.writer} \ {0, t}
  IN CASE lk_pc[t] \in {"clear_write_graph", "map_write_graph"} -> holders(lk_module_graph)
       [] lk_pc[t] = "clear_read_groups" -> writers(lk_module_group_graph)
       [] lk_pc[t] = "diff_write_groups" -> holders(lk_module_group_graph)
       [] lk_pc[t] \in {"diff_write_pots", "rerender_write_pots"} ->
            holders(lk_resource_pot_map)
       [] lk_pc[t] \in {"rerender_read_graph", "update_read_graph", "pot_read_graph"} ->
            writers(lk_module_graph)
       [] OTHER -> {}

\* the threads that run the update engine
UpdateEngineThreads ==
  {t \in Threads : lk_program[t] \in {"regenerate_resources_for_affected_module_groups",
                                      "render_and_generate_update_resource"}}

\* C29: no threads of the update engine wait for each other in a cycle: there
\* is no set of them in which every thread waits for a lock held by a thread
\* of the set
C29_NoCyclicWait ==
  ~ \E T \in (SUBSET UpdateEngineThreads) \ {{}} :
      \A t \in T : WaitsFor(t) \cap T # {}

(***************************************************************************)
(* The frame of regenerate_resources_for_affected_module_groups            *)
(***************************************************************************)
\* the pots that own the updated modules
OwningPots == {OwningPot(k)[1] : k \in 1..Len(updated_module_ids)}

\* the pots that the hook returned for an affected group and that the group
\* did not have before
NewPotsOfGroups ==
  UNION {hook_results[g] \ pre.module_group_resource_pots[g] : g \in DOMAIN hook_results}

\* the pots that an affected group had before and that the hook returned again
KeptPotsOfGroups ==
  UNION {hook_results[g] \cap pre.module_group_resource_pots[g] : g \in DOMAIN hook_results}

\* C30: when the call returns Ok the pots handed to the renderer are the new
\* pots of the affected groups and the owning pots of the updated modules; a
\* pot that an affected group had before and has again is the pot object of
\* before, with its modules, and is as it was unless it owns an updated
\* module; every pot of the map that was not handed to the renderer is as it was
C30_RerenderedExactlyNewAndOwning ==
  rpc = "ok" =>
    /\ Range(rendered) = NewPotsOfGroups \cup OwningPots
    /\ \A id \in KeptPotsOfGroups :
         /\ id \in DOMAIN resource_pot_map
         /\ resource_pot_map[id].modules = pre.resource_pot_map[id].modules
         /\ id \notin OwningPots => resource_pot_map[id] = pre.resource_pot_map[id]
    /\ \A id \in (DOMAIN resource_pot_map) \ (NewPotsOfGroups \cup OwningPots) :
         /\ id \in DOMAIN pre.resource_pot_map
         /\ resource_pot_map[id] = pre.resource_pot_map[id]

\* a call returned Ok that gave an affected group a new pot, kept another pot
\* of that group that owns no updated module, and rendered the pot of an
\* updated module of a group that was not affected
C30_Witness ==
  /\ rpc = "ok"
  /\ NewPotsOfGroups # {}
  /\ KeptPotsOfGroups \ OwningPots # {}
  /\ OwningPots \ (NewPotsOfGroups \cup KeptPotsOfGroups) # {}

====
